---------------------------- MODULE Spec2Model ----------------------------
(***************************************************************************)
(* Model of cupy_builder/install_build.py: the build-time capability probe *)
(* of CuPy (workspace / build-and-run primitive, per-dependency version    *)
(* checks and their caches, the compiler-diagnostic matcher, and the path  *)
(* resolution helpers).                                                    *)
(*                                                                         *)
(* Python values are tagged records, so that None, integers, strings and   *)
(* lists can live in the same variable as they do in the program.  Text    *)
(* (str and bytes) is a sequence of tokens; a token is a character or an   *)
(* indivisible piece of text.                                              *)
(***************************************************************************)
EXTENDS Integers, Sequences, FiniteSets, TLC

VARIABLES
    ret,                \* outcome of the last call: [op, kind, val]
    output_lines,       \* argument of the last _match_output_lines call
    regexs,             \* argument of the last _match_output_lines call
    env,                \* os.environ and the platform of this process
    fs,                 \* the temporary directories that exist
    trace,              \* the steps the last call took, in order
    warned,             \* what the last call gave to utils.print_warning
    settings0,          \* the caller's settings when the last call began
    settings,           \* the same object when the last call ended
    globals,            \* the module-level variables (the caches)
    checked,            \* the check_* functions called so far (history)
    ncalls              \* the number of calls made so far (history)

matchVars == <<output_lines, regexs>>
buildVars == <<fs, trace>>
callVars == <<warned, settings0, settings>>
vars == <<ret, output_lines, regexs, env, fs, trace, warned, settings0,
          settings, globals, checked, ncalls>>

---------------------------------------------------------------------------
(* Python values *)

PyNone == [t |-> "None"]
PyInt(n) == [t |-> "int", v |-> n]
PyBool(b) == [t |-> "bool", v |-> b]
PyStr(s) == [t |-> "str", v |-> s]
PyTuple(s) == [t |-> "tuple", v |-> s]
PyList(s) == [t |-> "list", v |-> s]
PyDict(d) == [t |-> "dict", v |-> d]
PySet(s) == [t |-> "set", v |-> s]

\* an operation returned val / raised an exception of class cls with text val
Return(op, val) == [op |-> op, kind |-> "return", val |-> val]
Raise(op, cls, text) == [op |-> op, kind |-> "raise", val |-> [t |-> cls, v |-> text]]
NoCall == [op |-> "none", kind |-> "none", val |-> PyNone]

---------------------------------------------------------------------------
(* The module-level variables as the import leaves them *)

NotInitialized == PyStr(<<"NOT_INITIALIZED">>)

GlobalsAtImport ==
    [_cuda_path |-> NotInitialized,
     _rocm_path |-> NotInitialized,
     _compiler_base_options |-> PyNone,
     _hip_version |-> PyNone,
     _thrust_version |-> PyNone,
     _cudnn_version |-> PyNone,
     _nccl_version |-> PyNone,
     _cutensor_version |-> PyNone,
     _cub_path |-> PyNone,
     _cub_version |-> PyNone,
     _jitify_path |-> PyNone,
     _jitify_version |-> PyNone,
     _compute_capabilities |-> PyNone,
     _cusparselt_version |-> PyNone]

minimum_cudnn_version == 7600
minimum_hip_version == 305
minimum_cutensor_version == 2000

\* a call that takes no settings
NoSettings == PyNone
NoWarning == <<>>

\* the variables a call that is not a check leaves behind it
Plain(r) ==
    /\ ret' = r.ret
    /\ trace' = r.trace
    /\ fs' = r.fs
    /\ warned' = NoWarning
    /\ settings0' = NoSettings
    /\ settings' = NoSettings

\* the process after the import of the module, in one of the environments envs
InitProcess(envs) ==
    /\ ret = NoCall
    /\ output_lines = <<>>
    /\ regexs = <<>>
    /\ env \in envs
    /\ fs = {}
    /\ trace = <<>>
    /\ warned = NoWarning
    /\ settings0 = NoSettings
    /\ settings = NoSettings
    /\ globals = GlobalsAtImport
    /\ checked = {}
    /\ ncalls = 0

---------------------------------------------------------------------------
\* re.match on the regular expressions this module uses.  An expression is
\*   ^ [spaces] pre [wildcard] post [$]
\* given as [sp, pre, any, group, post, dollar]: sp = it starts with " *",
\* any = a greedy wildcard stands between pre and post, group = the
\* wildcard is a capturing group.  A line is a token sequence.  A match
\* object is [string, group1].

IsPrefix(p, s) == Len(p) <= Len(s) /\ SubSeq(s, 1, Len(p)) = p

RECURSIVE SkipSpaces(_)
SkipSpaces(s) ==
    IF s # <<>> /\ Head(s) = " " THEN SkipSpaces(Tail(s)) ELSE s

\* the positions k at which `post` can start so that the rest of the
\* expression matches: body[k .. k+Len(post)-1] = post, then end of line
\* when the expression ends in $
PostStarts(body, re) ==
    { k \in 1..(Len(body) + 1) :
        /\ k + Len(re.post) - 1 <= Len(body)
        /\ SubSeq(body, k, k + Len(re.post) - 1) = re.post
        /\ (re.dollar => k + Len(re.post) - 1 = Len(body)) }

Max(S) == CHOOSE x \in S : \A y \in S : y <= x

re_match(re, line) ==
    LET s == IF re.sp THEN SkipSpaces(line) ELSE line
    IN  IF ~IsPrefix(re.pre, s) THEN PyNone
        ELSE LET body == SubSeq(s, Len(re.pre) + 1, Len(s))
                 ks == PostStarts(body, re)
             IN  IF re.any
                 THEN IF ks = {} THEN PyNone
                      ELSE \* .* is greedy: the last place post can start
                           [t |-> "match", string |-> line,
                            group1 |-> IF re.group
                                       THEN PyStr(SubSeq(body, 1, Max(ks) - 1))
                                       ELSE PyNone]
                 ELSE IF 1 \in ks
                      THEN [t |-> "match", string |-> line, group1 |-> PyNone]
                      ELSE PyNone

---------------------------------------------------------------------------
(* _match_output_lines *)

\* the inner loop `for j in range(len(regexs))` at window i (0-based), from
\* index j on; yields [found, matches]: found = the loop ended without
\* break (its else branch), matches = the list as the loop left it
RECURSIVE MatchWindow(_, _, _, _, _)
MatchWindow(lines, res, i, j, matches) ==
    IF j >= Len(res) THEN [found |-> TRUE, matches |-> matches]
    ELSE LET m == re_match(res[j + 1], lines[i + j + 1])
         IN  IF m = PyNone
             THEN [found |-> FALSE, matches |-> matches]
             ELSE MatchWindow(lines, res, i, j + 1,
                              [matches EXCEPT ![j + 1] = m])

\* the number of windows the outer loop tries: range(len(lines) - len(regexs))
ScanRange(lines, res) == Len(lines) - Len(res)

\* the outer loop `for i in range(...)` from window i on
RECURSIVE MatchScan(_, _, _, _)
MatchScan(lines, res, i, matches) ==
    IF i >= ScanRange(lines, res) THEN PyNone
    ELSE LET w == MatchWindow(lines, res, i, 0, matches)
         IN  IF w.found THEN PyList(w.matches)
             ELSE MatchScan(lines, res, i + 1, w.matches)

_match_output_lines(lines, res) ==
    IF Len(lines) < Len(res) THEN PyNone
    ELSE MatchScan(lines, res, 0, [k \in 1..Len(res) |-> PyNone])

---------------------------------------------------------------------------
(* The diagnostic lines and expressions of _get_compiler_base_options *)

ErrHead == "ERROR: No supported gcc/g++ host compiler found, but "
ErrTail == " is available."
UseHead == "Use 'nvcc "
UseTail == "' to use that instead."

NoHostCompilerRe ==
    [sp |-> FALSE, pre |-> <<ErrHead>>, any |-> TRUE, group |-> FALSE,
     post |-> <<ErrTail>>, dollar |-> TRUE]
UseInsteadRe ==
    [sp |-> TRUE, pre |-> <<UseHead>>, any |-> TRUE, group |-> TRUE,
     post |-> <<UseTail>>, dollar |-> TRUE]

ErrLine == <<ErrHead, "clang", ErrTail>>
UseLine == <<" ", " ", UseHead, "-ccbin", " ", "clang", UseTail>>

\* lines and expressions the matcher is exercised on
LineSet == {ErrLine, UseLine, <<"b">>, <<>>}
RegexSet ==
    {NoHostCompilerRe, UseInsteadRe,
     [sp |-> FALSE, pre |-> <<"b">>, any |-> FALSE, group |-> FALSE,
      post |-> <<>>, dollar |-> FALSE]}

MaxLines == 3
MaxRegexs == 2

SeqsUpTo(S, n) == UNION { [1..k -> S] : k \in 0..n }
SeqsFromTo(S, m, n) == UNION { [1..k -> S] : k \in m..n }

---------------------------------------------------------------------------
(* Text helpers *)

\* bytes.split(sep) / str.split(sep) with a one-token separator
RECURSIVE SplitOn(_, _)
SplitOn(s, sep) ==
    IF \A k \in 1..Len(s) : s[k] # sep THEN <<s>>
    ELSE LET k == CHOOSE i \in 1..Len(s) :
                      s[i] = sep /\ \A h \in 1..(i - 1) : s[h] # sep
         IN  <<SubSeq(s, 1, k - 1)>> \o SplitOn(SubSeq(s, k + 1, Len(s)), sep)

\* str.startswith
startswith(s, p) == IsPrefix(p, s)

\* text t occurs in text s
Contains(s, t) ==
    \E k \in 0..(Len(s) - Len(t)) : SubSeq(s, k + 1, k + Len(t)) = t

---------------------------------------------------------------------------
(* The environment: os.environ and the platform.                          *)
(*   cross    int(os.environ.get('CONDA_BUILD_CROSS_COMPILATION', 0))      *)
(*   override os.environ.get('CONDA_OVERRIDE_CUDA', '0')                   *)
(*   defined  which of BUILD_PREFIX, PREFIX, LIBRARY_INC, LIBRARY_LIB are  *)
(*            set                                                          *)
(*   linux    PLATFORM_LINUX (otherwise PLATFORM_WIN32)                    *)
(*   machine  platform.machine()                                           *)
(* A path is the sequence of its components.                               *)

CondaVars == {"BUILD_PREFIX", "PREFIX", "LIBRARY_INC", "LIBRARY_LIB"}

\* os.environ[name] of a variable that is set
Environ(name) == <<"$" , name>>

PlainEnv ==
    [cross |-> 0, override |-> <<"0">>, defined |-> {}, linux |-> TRUE,
     machine |-> "x86_64"]

Envs ==
    { PlainEnv,
      [cross |-> 1, override |-> <<"1", "2", ".", "2">>, defined |-> CondaVars,
       linux |-> TRUE, machine |-> "x86_64"],
      [cross |-> 1, override |-> <<"1", "1", ".", "8">>, defined |-> CondaVars,
       linux |-> TRUE, machine |-> "x86_64"],
      [cross |-> 1, override |-> <<"0">>, defined |-> {},
       linux |-> TRUE, machine |-> "x86_64"],
      [cross |-> 0, override |-> <<"1", "2", ".", "2">>, defined |-> CondaVars,
       linux |-> TRUE, machine |-> "aarch64"],
      [cross |-> 0, override |-> <<"1", "2", ".", "2">>, defined |-> {"BUILD_PREFIX"},
       linux |-> TRUE, machine |-> "x86_64"],
      [cross |-> 0, override |-> <<"1", "2", ".", "2">>, defined |-> CondaVars,
       linux |-> FALSE, machine |-> "AMD64"],
      [cross |-> 0, override |-> <<"1", "2", ".", "2">>, defined |-> {},
       linux |-> FALSE, machine |-> "AMD64"] }

conda_get_target_name(e) ==
    IF e.linux
    THEN IF e.machine = "aarch64" THEN "sbsa-linux"
         ELSE IF e.machine = "x86_64" THEN "x86_64-linux" ELSE "other-linux"
    ELSE "x64"

---------------------------------------------------------------------------
(* conda_update_dirs: [kind |-> "return", include_dirs, library_dirs], or  *)
(* [kind |-> "raise", cls, text] for the KeyError of an os.environ lookup  *)

KeyError(name) == [kind |-> "raise", cls |-> "KeyError", text |-> <<"'", name, "'">>]
Dirs(inc, lib) == [kind |-> "return", include_dirs |-> inc, library_dirs |-> lib]

\* the block under `if int(os.environ.get('CONDA_BUILD_CROSS_COMPILATION'...`
CondaCross(e, inc, lib) ==
    IF e.cross # 1 THEN Dirs(inc, lib)
    ELSE IF "BUILD_PREFIX" \notin e.defined THEN KeyError("BUILD_PREFIX")
    ELSE LET bp == Environ("BUILD_PREFIX")
             d1 == IF startswith(e.override, <<"1", "2">>)
                   THEN Dirs(<<bp \o <<"targets", "x86_64-linux", "include">>>> \o inc,
                             <<bp \o <<"lib", "stubs">>,
                               bp \o <<"targets", "x86_64-linux", "lib">>>> \o lib)
                   ELSE IF startswith(e.override, <<"1", "1">>)
                   THEN Dirs(Append(inc, <<"usr", "local", "cuda", "include">>),
                             Append(lib, <<"usr", "local", "cuda", "lib64", "stubs">>))
                   ELSE Dirs(inc, lib)
         IN  Dirs(Append(d1.include_dirs, bp \o <<"include">>),
                  Append(d1.library_dirs, bp \o <<"lib">>))

\* the second block, assigning new lists instead of appending
CondaCuda12_replaces(e, inc, lib) ==
    IF ~startswith(e.override, <<"1", "2">>) THEN Dirs(inc, lib)
    ELSE IF e.linux
    THEN IF "BUILD_PREFIX" \notin e.defined THEN KeyError("BUILD_PREFIX")
         ELSE IF "PREFIX" \notin e.defined THEN KeyError("PREFIX")
         ELSE Dirs(<<Environ("BUILD_PREFIX")
                         \o <<"targets", conda_get_target_name(e), "include">>,
                      Environ("PREFIX") \o <<"include">>>>,
                   <<Environ("PREFIX") \o <<"lib", "stubs">>,
                     Environ("PREFIX") \o <<"lib">>>>)
    ELSE IF "LIBRARY_INC" \notin e.defined THEN KeyError("LIBRARY_INC")
         ELSE IF "LIBRARY_LIB" \notin e.defined THEN KeyError("LIBRARY_LIB")
         ELSE Dirs(<<Environ("LIBRARY_INC")>>, <<Environ("LIBRARY_LIB")>>)

\* the block under the second `if ...startswith('12')`
CondaCuda12(e, inc, lib) ==
    IF ~startswith(e.override, <<"1", "2">>) THEN Dirs(inc, lib)
    ELSE IF e.linux
    THEN IF "BUILD_PREFIX" \notin e.defined THEN KeyError("BUILD_PREFIX")
         ELSE IF "PREFIX" \notin e.defined THEN KeyError("PREFIX")
         ELSE Dirs(inc \o <<Environ("BUILD_PREFIX")
                                \o <<"targets", conda_get_target_name(e), "include">>,
                             Environ("PREFIX") \o <<"include">>>>,
                   lib \o <<Environ("PREFIX") \o <<"lib", "stubs">>,
                            Environ("PREFIX") \o <<"lib">>>>)
    ELSE IF "LIBRARY_INC" \notin e.defined THEN KeyError("LIBRARY_INC")
         ELSE IF "LIBRARY_LIB" \notin e.defined THEN KeyError("LIBRARY_LIB")
         ELSE Dirs(Append(inc, Environ("LIBRARY_INC")),
                   Append(lib, Environ("LIBRARY_LIB")))

conda_update_dirs(e, include_dirs, library_dirs) ==
    LET c == CondaCross(e, include_dirs, library_dirs)
    IN  IF c.kind = "raise" THEN c
        ELSE CondaCuda12(e, c.include_dirs, c.library_dirs)

---------------------------------------------------------------------------
(* The workspace: _tempdir, a context manager.                            *)
(* A body run inside it is given as [ret, trace]: how it ended and the     *)
(* steps it took.  The result adds the directories that exist afterwards.  *)

Step(name, arg) == [step |-> name, arg |-> arg]
StepNames(tr) == [k \in 1..Len(tr) |-> tr[k].step]

\* tempfile.mkdtemp(): a directory that did not exist
NewTemp(dirs) == CHOOSE n \in 0..Cardinality(dirs) : n \notin dirs

_tempdir_no_finally(dirs, body) ==
    LET d == NewTemp(dirs)
    IN  IF body.ret.kind = "return"
        THEN [ret |-> body.ret,
              trace |-> <<Step("mkdtemp", PyInt(d))>> \o body.trace
                            \o <<Step("rmtree", PyInt(d))>>,
              fs |-> (dirs \cup {d}) \ {d}]
        ELSE [ret |-> body.ret,
              trace |-> <<Step("mkdtemp", PyInt(d))>> \o body.trace,
              fs |-> dirs \cup {d}]

\* try: yield temp_dir  finally: shutil.rmtree(temp_dir, ignore_errors=True)
_tempdir(dirs, body) ==
    LET d == NewTemp(dirs)
    IN  [ret |-> body.ret,
         trace |-> <<Step("mkdtemp", PyInt(d))>> \o body.trace
                       \o <<Step("rmtree", PyInt(d))>>,
         fs |-> (dirs \cup {d}) \ {d}]

---------------------------------------------------------------------------
(* build_shlib and build_and_run.                                         *)
(* The compiler, the file system and the built binary are outside the      *)
(* program: what they do in one call is the input beh, a record            *)
(*   [write, compile, link, exec, out]                                     *)
(* whose first four fields are "ok" or the text of the error raised at     *)
(* that step; out is what the binary prints.                               *)

Ok == <<"ok">>
StubBuildMsg == "Cannot build a stub file.\nOriginal error: "
StubRunMsg == "Cannot execute a stub file.\nOriginal error: "

\* what the failing step raised, as the trace keeps it
Error(text) == <<Step("error", PyStr(text))>>

\* `raise Exception('Cannot build a stub file.\nOriginal error: {}'.format(e))`
LinkError_text_lost(e) == <<StubBuildMsg>>
LinkError(e) == <<StubBuildMsg>> \o e

\* `raise Exception('Cannot execute a stub file.\nOriginal error: {}'.format(e))`
RunError(e) == <<StubRunMsg>> \o e

\* the statements of the `with` block with a link step that swallows its
\* exception
BuildSteps_link_unchecked(op, beh, inc, lib, link, run) ==
    LET tw == <<Step("write", PyNone)>>
        tc == tw \o <<Step("compile", PyList(inc))>>
        tl == tc \o <<Step(link, PyList(lib))>>
                \o (IF beh.link # Ok THEN Error(beh.link) ELSE <<>>)
        tx == tl \o <<Step("execute", PyNone)>>
    IN  IF beh.write # Ok
        THEN [ret |-> Raise(op, "OSError", beh.write),
              trace |-> tw \o Error(beh.write)]
        ELSE IF beh.compile # Ok
        THEN [ret |-> Raise(op, "CompileError", beh.compile),
              trace |-> tc \o Error(beh.compile)]
        ELSE IF ~run
        THEN [ret |-> Return(op, PyNone), trace |-> tl]
        ELSE IF beh.exec # Ok \/ beh.link # Ok
        THEN [ret |-> Raise(op, "Exception", RunError(beh.exec)),
              trace |-> tx \o Error(beh.exec)]
        ELSE [ret |-> Return(op, PyStr(beh.out)),
              trace |-> tl \o <<Step("execute", PyStr(beh.out))>>]

\* the statements of the `with` block, from the writing of the source on;
\* link is "link_executable" or "link_shared_lib", run tells build_and_run
\* from build_shlib
BuildSteps(op, beh, inc, lib, link, run) ==
    LET tw == <<Step("write", PyNone)>>
        tc == tw \o <<Step("compile", PyList(inc))>>
        tl == tc \o <<Step(link, PyList(lib))>>
        tx == tl \o <<Step("execute", PyNone)>>
    IN  IF beh.write # Ok
        THEN [ret |-> Raise(op, "OSError", beh.write),
              trace |-> tw \o Error(beh.write)]
        ELSE IF beh.compile # Ok
        THEN [ret |-> Raise(op, "CompileError", beh.compile),
              trace |-> tc \o Error(beh.compile)]
        ELSE IF beh.link # Ok
        THEN [ret |-> Raise(op, "Exception", LinkError(beh.link)),
              trace |-> tl \o Error(beh.link)]
        ELSE IF ~run
        THEN [ret |-> Return(op, PyNone), trace |-> tl]
        ELSE IF beh.exec # Ok
        THEN [ret |-> Raise(op, "Exception", RunError(beh.exec)),
              trace |-> tx \o Error(beh.exec)]
        ELSE [ret |-> Return(op, PyStr(beh.out)),
              trace |-> tl \o <<Step("execute", PyStr(beh.out))>>]

build_shlib(dirs, e, beh, include_dirs, library_dirs) ==
    LET c == conda_update_dirs(e, include_dirs, library_dirs)
    IN  IF c.kind = "raise"
        THEN [ret |-> Raise("build_shlib", c.cls, c.text), trace |-> <<>>, fs |-> dirs]
        ELSE _tempdir(dirs, BuildSteps("build_shlib", beh, c.include_dirs,
                                       c.library_dirs, "link_shared_lib", FALSE))

build_and_run(dirs, e, beh, include_dirs, library_dirs) ==
    LET c == conda_update_dirs(e, include_dirs, library_dirs)
    IN  IF c.kind = "raise"
        THEN [ret |-> Raise("build_and_run", c.cls, c.text), trace |-> <<>>, fs |-> dirs]
        ELSE _tempdir(dirs, BuildSteps("build_and_run", beh, c.include_dirs,
                                       c.library_dirs, "link_executable", TRUE))

---------------------------------------------------------------------------
(* _get_compiler_base_options.                                            *)
(* What the file system and the compiler process do is the input proc:     *)
(*   [write, spawn, returncode, stderr]                                    *)
(* write and spawn are "ok" or the text of the OSError raised.             *)

UnknownErrorMsg == "Encountered unknown error while testing nvcc:\n"

\* the branch under `if proc.returncode != 0`
NoHostCompiler(op, stderrdata) ==
    LET stderrlines == SplitOn(stderrdata, "\n")
        matches == _match_output_lines(stderrlines,
                                       <<NoHostCompilerRe, UseInsteadRe>>)
    IN  IF matches # PyNone
        THEN Return(op, PyList(SplitOn(matches.v[2].group1.v, " ")))
        ELSE Raise(op, "RuntimeError", <<UnknownErrorMsg>> \o stderrdata)

\* the compile step records what proc.communicate() gave:
\* (proc.returncode, stderrdata)
BaseOptionsSteps(op, proc) ==
    LET tw == <<Step("write", PyNone)>>
        ts == tw \o <<Step("compile", PyNone)>>
        tc == tw \o <<Step("compile", PyTuple(<<PyInt(proc.returncode),
                                                PyStr(proc.stderr)>>))>>
    IN  IF proc.write # Ok
        THEN [ret |-> Raise(op, "OSError", proc.write),
              trace |-> tw \o Error(proc.write)]
        ELSE IF proc.spawn # Ok
        THEN [ret |-> Raise(op, "OSError", proc.spawn),
              trace |-> ts \o Error(proc.spawn)]
        ELSE IF proc.returncode # 0
        THEN [ret |-> NoHostCompiler(op, proc.stderr), trace |-> tc]
        ELSE [ret |-> Return(op, PyList(<<>>)), trace |-> tc]

_get_compiler_base_options(dirs, proc) ==
    _tempdir(dirs, BaseOptionsSteps("_get_compiler_base_options", proc))

---------------------------------------------------------------------------
(* Inputs of the build operations *)

ErrTexts == {<<"undefined reference">>, <<"exit status 1">>}

AllOk(out) == [write |-> Ok, compile |-> Ok, link |-> Ok, exec |-> Ok, out |-> out]

FailingAt(step, text) == [AllOk(<<>>) EXCEPT ![step] = text]

Failures ==
    { FailingAt(step, text) : step \in {"write", "compile", "link", "exec"},
                              text \in ErrTexts }

BuildOutputs == {<<>>, <<"3", "0", "5">>}

Behaviours == Failures \cup { AllOk(out) : out \in BuildOutputs }

VendorDir == <<"src", "cupy", "_core", "include">>
UserDir == <<"opt", "include">>
CudaLib == <<"usr", "local", "cuda", "lib64">>

IncludeLists == {<<>>, <<VendorDir>>, <<VendorDir, UserDir>>}
LibraryLists == {<<>>, <<CudaLib>>}

Stderrs ==
    { <<>>,
      <<"b", "\n">>,
      ErrLine \o <<"\n">> \o UseLine \o <<"\n">>,
      ErrLine \o <<"\n">> \o UseLine,
      <<"b", "\n">> \o ErrLine \o <<"\n">> \o UseLine \o <<"\n">>,
      ErrLine \o <<"\n", "b", "\n">> \o UseLine \o <<"\n">> }

Procs ==
    { [write |-> w, spawn |-> Ok, returncode |-> 0, stderr |-> <<>>] :
          w \in {Ok} \cup ErrTexts }
    \cup { [write |-> Ok, spawn |-> sp, returncode |-> 0, stderr |-> <<>>] :
          sp \in ErrTexts }
    \cup { [write |-> Ok, spawn |-> Ok, returncode |-> 1, stderr |-> e] :
          e \in Stderrs }

---------------------------------------------------------------------------
(* int() and str() *)

Digits == <<"0", "1", "2", "3", "4", "5", "6", "7", "8", "9">>
IsDigit(c) == \E d \in 1..10 : Digits[d] = c
DigitValue(c) == (CHOOSE d \in 1..10 : Digits[d] = c) - 1

\* the value of a nonempty sequence of digits
RECURSIVE DigitsValue(_)
DigitsValue(s) ==
    IF Len(s) = 1 THEN DigitValue(s[1])
    ELSE 10 * DigitsValue(SubSeq(s, 1, Len(s) - 1)) + DigitValue(s[Len(s)])

IsSpace(c) == c \in {" ", "\n"}

RECURSIVE Strip(_)
Strip(s) ==
    IF s = <<>> THEN s
    ELSE IF IsSpace(Head(s)) THEN Strip(Tail(s))
    ELSE IF IsSpace(s[Len(s)]) THEN Strip(SubSeq(s, 1, Len(s) - 1))
    ELSE s

AllDigits(s) == s # <<>> /\ \A k \in 1..Len(s) : IsDigit(s[k])

ValueError == [t |-> "ValueError"]

\* int(text): surrounding white space and one sign are accepted
int(text) ==
    LET s == Strip(text)
    IN  IF AllDigits(s) THEN PyInt(DigitsValue(s))
        ELSE IF s # <<>> /\ Head(s) \in {"-", "+"} /\ AllDigits(Tail(s))
        THEN PyInt(IF Head(s) = "-" THEN 0 - DigitsValue(Tail(s))
                   ELSE DigitsValue(Tail(s)))
        ELSE ValueError

\* str(n) of an integer
RECURSIVE NatStr(_)
NatStr(n) ==
    IF n < 10 THEN <<Digits[n + 1]>>
    ELSE Append(NatStr(n \div 10), Digits[(n % 10) + 1])

str(n) == IF n < 0 THEN <<"-">> \o NatStr(0 - n) ELSE NatStr(n)

\* text.split(): the runs of non-space tokens
RECURSIVE split(_)
split(text) ==
    LET s == Strip(text)
    IN  IF s = <<>> THEN <<>>
        ELSE IF \A k \in 1..Len(s) : ~IsSpace(s[k]) THEN <<s>>
        ELSE LET k == CHOOSE i \in 1..Len(s) :
                          IsSpace(s[i]) /\ \A h \in 1..(i - 1) : ~IsSpace(s[h])
             IN  <<SubSeq(s, 1, k - 1)>> \o split(SubSeq(s, k + 1, Len(s)))

---------------------------------------------------------------------------
(* The version checks.  Each takes what the compiler and the probe do      *)
(* (beh) and the caller's settings, a dict                                 *)
(*   [include_dirs, library_dirs, define_macros]                           *)

True == PyBool(TRUE)
False == PyBool(FALSE)

\* the variables a check_* call leaves behind it: r is its build_and_run,
\* rv its outcome, w its warnings, g the module variables, st the settings
\* object at the end
Check(op, r, rv, w, g, st0, st) ==
    /\ ret' = rv
    /\ trace' = r.trace
    /\ fs' = r.fs
    /\ warned' = w
    /\ globals' = g
    /\ settings0' = st0
    /\ settings' = st
    /\ checked' = checked \cup {op}
    /\ UNCHANGED <<matchVars, env>>

\* a failed probe that also forgets what was detected before
ProbeFailed_forgets(op, r, w, st) ==
    Check(op, r, Return(op, False), w, GlobalsAtImport, st, st)

\* `except Exception as e: utils.print_warning(...); return False`
ProbeFailed(op, r, w, st) ==
    Check(op, r, Return(op, False), w, globals, st, st)

\* int(out) raised: the exception leaves the check
NotAnInteger(op, r, st) ==
    Check(op, r, Raise(op, "ValueError", <<"invalid literal for int()">>),
          NoWarning, globals, st, st)

\* `_hip_version < minimum_hip_version`
HipTooOld(v) == v < minimum_hip_version

check_hip_version(beh, st) ==
    LET op == "check_hip_version"
        r == build_and_run(fs, env, beh, st.include_dirs, <<>>)
        n == int(r.ret.val.v)
        g == [globals EXCEPT !._hip_version = n]
    IN  IF r.ret.kind = "raise"
        THEN ProbeFailed(op, r, <<<<"Cannot check HIP version">>, r.ret.val.v>>, st)
        ELSE IF n = ValueError THEN NotAnInteger(op, r, st)
        ELSE IF HipTooOld(n.v)
        THEN Check(op, r, Return(op, False),
                   <<<<"ROCm/HIP version is too old: ">> \o str(n.v),
                     <<"ROCm 3.5.0 or newer is required">>>>, g, st, st)
        ELSE Check(op, r, Return(op, True), NoWarning, g, st, st)

check_thrust_version(beh, st) ==
    LET op == "check_thrust_version"
        r == build_and_run(fs, env, beh, st.include_dirs, <<>>)
        n == int(r.ret.val.v)
        g == [globals EXCEPT !._thrust_version = n]
    IN  IF r.ret.kind = "raise"
        THEN ProbeFailed(op, r, <<<<"Cannot check Thrust version\n">> \o r.ret.val.v>>, st)
        ELSE IF n = ValueError THEN NotAnInteger(op, r, st)
        ELSE Check(op, r, Return(op, True), NoWarning, g, st, st)

\* `not minimum_cudnn_version <= _cudnn_version`
CudnnUnsupported_strict(v) == ~(minimum_cudnn_version < v)
CudnnUnsupported(v) == ~(minimum_cudnn_version <= v)

\* a check that assigns _cudnn_version only after the comparison
check_cudnn_version_caches_late(beh, st) ==
    LET op == "check_cudnn_version"
        r == build_and_run(fs, env, beh, st.include_dirs, <<>>)
        n == int(r.ret.val.v)
        g == [globals EXCEPT !._cudnn_version = n]
    IN  IF r.ret.kind = "raise"
        THEN ProbeFailed(op, r, <<<<"Cannot check cuDNN version\n">> \o r.ret.val.v>>, st)
        ELSE IF n = ValueError THEN NotAnInteger(op, r, st)
        ELSE IF CudnnUnsupported(n.v)
        THEN Check(op, r, Return(op, False),
                   <<<<"Unsupported cuDNN version: ">> \o str(n.v),
                     <<"cuDNN >=v">> \o str(minimum_cudnn_version)
                         \o <<" is required">>>>, globals, st, st)
        ELSE Check(op, r, Return(op, True), NoWarning, g, st, st)

check_cudnn_version(beh, st) ==
    LET op == "check_cudnn_version"
        r == build_and_run(fs, env, beh, st.include_dirs, <<>>)
        n == int(r.ret.val.v)
        g == [globals EXCEPT !._cudnn_version = n]
    IN  IF r.ret.kind = "raise"
        THEN ProbeFailed(op, r, <<<<"Cannot check cuDNN version\n">> \o r.ret.val.v>>, st)
        ELSE IF n = ValueError THEN NotAnInteger(op, r, st)
        ELSE IF CudnnUnsupported(n.v)
        THEN Check(op, r, Return(op, False),
                   <<<<"Unsupported cuDNN version: ">> \o str(n.v),
                     <<"cuDNN >=v">> \o str(minimum_cudnn_version)
                         \o <<" is required">>>>, g, st, st)
        ELSE Check(op, r, Return(op, True), NoWarning, g, st, st)

check_nccl_version(beh, st) ==
    LET op == "check_nccl_version"
        r == build_and_run(fs, env, beh, st.include_dirs, <<>>)
        n == int(r.ret.val.v)
        g == [globals EXCEPT !._nccl_version = n]
    IN  IF r.ret.kind = "raise"
        THEN ProbeFailed(op, r, <<<<"Cannot include NCCL\n">> \o r.ret.val.v>>, st)
        ELSE IF n = ValueError THEN NotAnInteger(op, r, st)
        ELSE Check(op, r, Return(op, True), NoWarning, g, st, st)

\* `_cutensor_version < 2000`
CutensorUnsupported(v) == v < minimum_cutensor_version

check_cutensor_version(beh, st) ==
    LET op == "check_cutensor_version"
        r == build_and_run(fs, env, beh, st.include_dirs, <<>>)
        n == int(r.ret.val.v)
        g == [globals EXCEPT !._cutensor_version = n]
    IN  IF r.ret.kind = "raise"
        THEN ProbeFailed(op, r, <<<<"Cannot check cuTENSOR version\n">> \o r.ret.val.v>>, st)
        ELSE IF n = ValueError THEN NotAnInteger(op, r, st)
        ELSE IF CutensorUnsupported(n.v)
        THEN Check(op, r, Return(op, False),
                   <<<<"Unsupported cuTENSOR version: ">> \o str(n.v)>>, g, st, st)
        ELSE Check(op, r, Return(op, True), NoWarning, g, st, st)

check_cusparselt_version(beh, st) ==
    LET op == "check_cusparselt_version"
        r == build_and_run(fs, env, beh, st.include_dirs, <<>>)
        n == int(r.ret.val.v)
        g == [globals EXCEPT !._cusparselt_version = n]
    IN  IF r.ret.kind = "raise"
        THEN ProbeFailed(op, r, <<<<"Cannot check cuSPARSELt version\n">> \o r.ret.val.v>>, st)
        ELSE IF n = ValueError THEN NotAnInteger(op, r, st)
        ELSE Check(op, r, Return(op, True), NoWarning, g, st, st)

\* `[int(o) for o in out.split()]`
Ints(out) == LET toks == split(out) IN [k \in 1..Len(toks) |-> int(toks[k])]

\* `set([...])`
Capabilities_as_list(ints) == PyList([k \in 1..Len(ints) |-> ints[k].v])
Capabilities(ints) == PySet({ ints[k].v : k \in 1..Len(ints) })

\* the assignment to _compute_capabilities is inside the try block: a
\* token that is no integer is caught like a failed probe
check_compute_capabilities(beh, st) ==
    LET op == "check_compute_capabilities"
        r == build_and_run(fs, env, beh, st.include_dirs, st.library_dirs)
        ints == Ints(r.ret.val.v)
        g == [globals EXCEPT !._compute_capabilities = Capabilities(ints)]
    IN  IF r.ret.kind = "raise"
        THEN ProbeFailed(op, r, <<<<"Cannot check compute capability\n">> \o r.ret.val.v>>, st)
        ELSE IF \E k \in 1..Len(ints) : ints[k] = ValueError
        THEN ProbeFailed(op, r, <<<<"Cannot check compute capability\n",
                                   "invalid literal for int()">>>>, st)
        ELSE Check(op, r, Return(op, True), NoWarning, g, st, st)

---------------------------------------------------------------------------
(* check_cub_version and check_jitify_version.                            *)
(* What `git` does is the input git: [spawn, returncode, stdout]; spawn is *)
(* "ok" or the text of the error subprocess.run raised.                    *)

IntError == <<"invalid literal for int()">>
IndexError == <<"list index out of range">>

Failed(text) == [ok |-> FALSE, text |-> text]
Version(n) == [ok |-> TRUE, out |-> n]

\* `out += int(tag[2])`, and under `except ValueError` the tag with local
\* commits, "1.8.0-1-gdcbb288f"; tag is the list tag.split('.')
CubPatch(tag, out) ==
    LET local_patch == SplitOn(tag[3], "-")
    IN  IF Len(tag) < 3 THEN Failed(IndexError)
        ELSE IF int(tag[3]) # ValueError THEN Version(out + int(tag[3]).v)
        ELSE IF int(local_patch[1]) = ValueError THEN Failed(IntError)
        ELSE IF Len(local_patch) < 2 THEN Failed(IndexError)
        ELSE IF int(local_patch[2]) = ValueError THEN Failed(IntError)
        ELSE Version(out + int(local_patch[1]).v + int(local_patch[2]).v)

\* the branch `if a.returncode == 0`: the tag normalized to CUB_VERSION
CubVersionOfTag(stdout) ==
    LET t0 == SubSeq(stdout, 1, Len(stdout) - 1)
        t1 == IF startswith(t0, <<"v">>) THEN Tail(t0) ELSE t0
        tag == SplitOn(t1, ".")
    IN  IF int(tag[1]) = ValueError THEN Failed(IntError)
        ELSE IF Len(tag) < 2 THEN Failed(IndexError)
        ELSE IF int(tag[2]) = ValueError THEN Failed(IntError)
        ELSE CubPatch(tag, int(tag[1]).v * 100000 + int(tag[2]).v * 100)

\* the inner try block of check_cub_version; e is the text of the probe's
\* exception
CubVersionFromGit(git, e) ==
    IF git.spawn # Ok THEN Failed(git.spawn)
    ELSE IF git.returncode # 0
    THEN Failed(<<"Cannot determine CUB version from git tag\n">> \o e)
    ELSE CubVersionOfTag(git.stdout)

\* the version for which nothing is known
UnknownVersion_zero == PyInt(0)
UnknownVersion == PyInt(0 - 1)

\* the run of git, with what it did
GitStep(git) == <<Step("git", git)>>

Macro(name, value) == [name |-> name, value |-> value]
AppendMacro(st, m) == [st EXCEPT !.define_macros = Append(@, m)]

check_cub_version(beh, git, st) ==
    LET op == "check_cub_version"
        r == build_and_run(fs, env, beh, st.include_dirs, <<>>)
        f == CubVersionFromGit(git, r.ret.val.v)
        probed == r.ret.kind = "return"
        out == IF probed THEN int(r.ret.val.v)
               ELSE IF f.ok THEN PyInt(f.out)
               ELSE UnknownVersion
        r2 == IF probed THEN r ELSE [r EXCEPT !.trace = @ \o GitStep(git)]
        w == IF probed \/ f.ok THEN NoWarning
             ELSE <<<<"Cannot determine CUB version\n">> \o f.text>>
    IN  IF out = ValueError THEN NotAnInteger(op, r, st)
        ELSE Check(op, r2, Return(op, True), w,
                   [globals EXCEPT !._cub_version = out], st,
                   AppendMacro(st, Macro("CUPY_CUB_VERSION_CODE", out)))

check_jitify_version(git, st) ==
    LET op == "check_jitify_version"
        found == git.spawn = Ok /\ git.returncode = 0
        out == IF found
               THEN PyStr(SubSeq(git.stdout, 1, Len(git.stdout) - 1))
               ELSE UnknownVersion
        e == IF git.spawn # Ok THEN git.spawn
             ELSE <<"Cannot determine Jitify version from git">>
        w == IF found THEN NoWarning
             ELSE <<<<"Cannot determine Jitify version\n">> \o e>>
    IN  Check(op, [trace |-> GitStep(git), fs |-> fs], Return(op, True), w,
              [globals EXCEPT !._jitify_version = out], st,
              AppendMacro(st, Macro("CUPY_JITIFY_VERSION_CODE", out)))

---------------------------------------------------------------------------
(* The accessors *)

\* the variables an accessor leaves behind it
Get(rv) ==
    /\ ret' = rv
    /\ trace' = <<>>
    /\ warned' = NoWarning
    /\ settings0' = NoSettings
    /\ settings' = NoSettings
    /\ UNCHANGED <<matchVars, env, fs, globals, checked>>

MustBeCalledFirst(op, check) ==
    Raise(op, "RuntimeError", <<check, "() must be called first.">>)

\* the accessors that are `if v is None: raise ...; if formatted: return
\* str(v); return v`
Cached(op, check, v, formatted) ==
    IF v = PyNone THEN MustBeCalledFirst(op, check)
    ELSE IF formatted THEN Return(op, PyStr(str(v.v)))
    ELSE Return(op, v)

get_hip_version(formatted) ==
    Get(Cached("get_hip_version", "check_hip_version",
               globals._hip_version, formatted))

get_compute_capabilities(formatted) ==
    Get(Return("get_compute_capabilities", globals._compute_capabilities))

get_thrust_version(formatted) ==
    Get(Cached("get_thrust_version", "check_thrust_version",
               globals._thrust_version, formatted))

get_cudnn_version(formatted) ==
    Get(Cached("get_cudnn_version", "check_cudnn_version",
               globals._cudnn_version, formatted))

get_nccl_version(formatted) ==
    LET op == "get_nccl_version"
        v == globals._nccl_version
    IN  Get(IF v = PyNone THEN MustBeCalledFirst(op, "check_nccl_version")
            ELSE IF formatted /\ v = PyInt(0) THEN Return(op, PyStr(<<"1.x">>))
            ELSE IF formatted THEN Return(op, PyStr(str(v.v)))
            ELSE Return(op, v))

Unknown == PyStr(<<"<unknown>">>)

get_cub_version(formatted) ==
    LET op == "get_cub_version"
        v == globals._cub_version
    IN  Get(IF v = PyNone THEN MustBeCalledFirst(op, "check_cub_version")
            ELSE IF formatted /\ v = PyInt(0 - 1) THEN Return(op, Unknown)
            ELSE IF formatted THEN Return(op, PyStr(str(v.v)))
            ELSE Return(op, v))

get_jitify_version(formatted) ==
    LET op == "get_jitify_version"
        v == globals._jitify_version
    IN  Get(IF v = PyNone THEN MustBeCalledFirst(op, "check_jitify_version")
            ELSE IF formatted /\ v = PyInt(0 - 1) THEN Return(op, Unknown)
            ELSE IF formatted THEN Return(op, v)
            ELSE Raise(op, "RuntimeError", <<"Jitify version is a commit string">>))

get_cutensor_version(formatted) ==
    LET op == "get_cutensor_version"
        v == globals._cutensor_version
    IN  Get(IF v = PyNone THEN MustBeCalledFirst(op, "check_cutensor_version")
            ELSE Return(op, v))

get_cusparselt_version(formatted) ==
    LET op == "get_cusparselt_version"
        v == globals._cusparselt_version
    IN  Get(IF v = PyNone THEN MustBeCalledFirst(op, "check_cusparselt_version")
            ELSE Return(op, v))

---------------------------------------------------------------------------
(* Inputs of the version checks *)

SettingsSet ==
    { [include_dirs |-> <<VendorDir>>, library_dirs |-> <<CudaLib>>,
       define_macros |-> <<>>],
      [include_dirs |-> <<VendorDir, UserDir>>, library_dirs |-> <<>>,
       define_macros |-> <<Macro("CUPY_NO_NVTX", PyStr(<<"1">>))>>] }

\* a probe that does not compile, does not link, does not run
ProbeFailures ==
    { FailingAt("compile", <<"fatal error: no such header">>),
      FailingAt("link", <<"undefined reference">>),
      FailingAt("exec", <<"exit status 1">>) }

Probes(outs) == ProbeFailures \cup { AllOk(out) : out \in outs }

\* what a probe prints around a floor: below it, the floor, above it
AroundFloor(floor) == { str(0), str(floor - 1), str(floor), str(floor + 1) }

ThrustOutputs == { <<"2", "0", "0", "5", "0", "0">> }
NcclOutputs == { <<"0">>, <<"2", "1", "8", "0", "3">> }
CusparseltOutputs == { <<"6", "0", "2">> }
CapabilityOutputs ==
    { <<>>, <<"8", "6", " ">>, <<"7", "5", " ", "7", "5", " ", "8", "6", " ">> }
CubOutputs == { <<"0">>, <<"2", "0", "0", "2", "0", "0">> }

GitRan(rc, stdout) == [spawn |-> Ok, returncode |-> rc, stdout |-> stdout]

CubGits ==
    { [spawn |-> <<"No such file or directory">>, returncode |-> 0, stdout |-> <<>>],
      GitRan(128, <<>>),
      GitRan(0, <<"v", "1", ".", "8", ".", "0", "\n">>),
      GitRan(0, <<"2", ".", "2", ".", "0", "\n">>),
      GitRan(0, <<"1", ".", "8", ".", "0", "-", "1", "-", "gdcbb288f", "\n">>),
      GitRan(0, <<"v", "2", "\n">>),
      GitRan(0, <<"v", "2", ".", "2", "\n">>),
      GitRan(0, <<"cccl", "\n">>) }

JitifyGits ==
    { [spawn |-> <<"No such file or directory">>, returncode |-> 0, stdout |-> <<>>],
      GitRan(128, <<>>),
      GitRan(0, <<"1a0ca0e", "\n">>) }

\* the environments of the specifications that are not about conda
ProbeEnvs ==
    { PlainEnv,
      [cross |-> 1, override |-> <<"0">>, defined |-> {},
       linux |-> TRUE, machine |-> "x86_64"] }

---------------------------------------------------------------------------
(* Specification SpecBuild: calls of build_and_run, build_shlib and        *)
(* _get_compiler_base_options in one process                               *)

BuildAndRun(beh, include_dirs, library_dirs) ==
    LET r == build_and_run(fs, env, beh, include_dirs, library_dirs)
    IN  /\ Plain(r)
        /\ UNCHANGED <<matchVars, env, globals, checked>>

BuildShlib(beh, include_dirs, library_dirs) ==
    LET r == build_shlib(fs, env, beh, include_dirs, library_dirs)
    IN  /\ Plain(r)
        /\ UNCHANGED <<matchVars, env, globals, checked>>

GetCompilerBaseOptionsUncached(proc) ==
    LET r == _get_compiler_base_options(fs, proc)
    IN  /\ Plain(r)
        /\ UNCHANGED <<matchVars, env, globals, checked>>

InitBuild == InitProcess(Envs)

NextBuild ==
    \/ \E beh \in Behaviours, inc \in IncludeLists, lib \in LibraryLists :
           BuildAndRun(beh, inc, lib) /\ UNCHANGED ncalls
    \/ \E beh \in Behaviours, inc \in IncludeLists, lib \in LibraryLists :
           BuildShlib(beh, inc, lib) /\ UNCHANGED ncalls
    \/ \E proc \in Procs : GetCompilerBaseOptionsUncached(proc) /\ UNCHANGED ncalls

SpecBuild == InitBuild /\ [][NextBuild]_vars

---------------------------------------------------------------------------
(* C2 (as stated): every call of build_and_run, build_shlib or             *)
(* _get_compiler_base_options creates exactly one temporary workspace      *)
(* directory, and that directory no longer exists when the call returns    *)
(* or raises.                                                              *)

WorkspaceOps == {"build_and_run", "build_shlib", "_get_compiler_base_options"}

\* the directories the last call created
Created == { k \in 1..Len(trace) : trace[k].step = "mkdtemp" }

C2_ExactlyOneWorkspace ==
    ret.op \in WorkspaceOps =>
        /\ Cardinality(Created) = 1
        /\ \A k \in Created : trace[k].arg.v \notin fs

(* C2 (amended): a call that does not raise in conda_update_dirs creates   *)
(* exactly one workspace directory; a call that raises there (KeyError of  *)
(* an os.environ lookup) creates none; in every case no directory the call *)
(* created exists when it returns or raises, whichever step failed.        *)

RaisedInCondaUpdateDirs == ret.kind = "raise" /\ ret.val.t = "KeyError"

C2_WorkspaceRemoved ==
    ret.op \in WorkspaceOps =>
        /\ Cardinality(Created) = IF RaisedInCondaUpdateDirs THEN 0 ELSE 1
        /\ \A k \in Created : trace[k].arg.v \notin fs
        /\ fs = {}

\* a call that failed at its link step has created and removed its workspace
C2_Witness ==
    /\ ret.op = "build_and_run"
    /\ ret.kind = "raise"
    /\ ret.val.t = "Exception"
    /\ StepNames(trace) = <<"mkdtemp", "write", "compile", "link_executable",
                           "error", "rmtree">>
    /\ fs = {}

---------------------------------------------------------------------------
(* Specification SpecVersions: the first MaxCalls calls of a process, each *)
(* one of build_and_run, build_shlib, the nine checks and their accessors  *)

MaxCalls == 2

OneSettings == { CHOOSE st \in SettingsSet : st.define_macros = <<>> }
AtFloor(floor) == { str(floor) }
NoTag == { GitRan(128, <<>>) }

InitVersions == InitProcess({PlainEnv})

Call == ncalls < MaxCalls /\ ncalls' = ncalls + 1

NextVersions ==
    \/ Call /\ \E beh \in Probes(AtFloor(minimum_hip_version)), st \in OneSettings :
           check_hip_version(beh, st)
    \/ Call /\ \E beh \in Probes(AtFloor(minimum_cudnn_version)), st \in OneSettings :
           check_cudnn_version(beh, st)
    \/ Call /\ \E beh \in Probes(AtFloor(minimum_cutensor_version)), st \in OneSettings :
           check_cutensor_version(beh, st)
    \/ Call /\ \E beh \in Probes(ThrustOutputs), st \in OneSettings :
           check_thrust_version(beh, st)
    \/ Call /\ \E beh \in Probes(NcclOutputs), st \in OneSettings :
           check_nccl_version(beh, st)
    \/ Call /\ \E beh \in Probes(CusparseltOutputs), st \in OneSettings :
           check_cusparselt_version(beh, st)
    \/ Call /\ \E beh \in Probes(CapabilityOutputs), st \in OneSettings :
           check_compute_capabilities(beh, st)
    \/ Call /\ \E beh \in Probes(CubOutputs), git \in NoTag, st \in OneSettings :
           check_cub_version(beh, git, st)
    \/ Call /\ \E git \in JitifyGits, st \in OneSettings :
           check_jitify_version(git, st)
    \/ Call /\ \E formatted \in BOOLEAN : get_hip_version(formatted)
    \/ Call /\ \E formatted \in BOOLEAN : get_cudnn_version(formatted)
    \/ Call /\ \E formatted \in BOOLEAN : get_cutensor_version(formatted)
    \/ Call /\ \E formatted \in BOOLEAN : get_thrust_version(formatted)
    \/ Call /\ \E formatted \in BOOLEAN : get_nccl_version(formatted)
    \/ Call /\ \E formatted \in BOOLEAN : get_cusparselt_version(formatted)
    \/ Call /\ \E formatted \in BOOLEAN : get_compute_capabilities(formatted)
    \/ Call /\ \E formatted \in BOOLEAN : get_cub_version(formatted)
    \/ Call /\ \E formatted \in BOOLEAN : get_jitify_version(formatted)
    \/ Call /\ \E beh \in ProbeFailures \cup {AllOk(<<>>)} :
           BuildAndRun(beh, <<VendorDir>>, <<CudaLib>>)
    \/ Call /\ \E beh \in ProbeFailures \cup {AllOk(<<>>)} :
           BuildShlib(beh, <<VendorDir>>, <<CudaLib>>)

SpecVersions == InitVersions /\ [][NextVersions]_vars

---------------------------------------------------------------------------
(* Specification SpecFloor: the checks with a minimum version (HIP, cuDNN, *)
(* cuTENSOR) and their accessors, any number of calls                      *)

InitFloor == InitProcess(ProbeEnvs)

NextFloor ==
    \/ \E beh \in Probes(AroundFloor(minimum_hip_version)), st \in OneSettings :
           check_hip_version(beh, st) /\ UNCHANGED ncalls
    \/ \E beh \in Probes(AroundFloor(minimum_cudnn_version)), st \in OneSettings :
           check_cudnn_version(beh, st) /\ UNCHANGED ncalls
    \/ \E beh \in Probes(AroundFloor(minimum_cutensor_version)), st \in OneSettings :
           check_cutensor_version(beh, st) /\ UNCHANGED ncalls
    \/ \E formatted \in BOOLEAN : get_hip_version(formatted) /\ UNCHANGED ncalls
    \/ \E formatted \in BOOLEAN : get_cudnn_version(formatted) /\ UNCHANGED ncalls
    \/ \E formatted \in BOOLEAN : get_cutensor_version(formatted) /\ UNCHANGED ncalls

SpecFloor == InitFloor /\ [][NextFloor]_vars

---------------------------------------------------------------------------
(* Specification SpecPlain: the checks without a minimum version (Thrust,  *)
(* NCCL, cuSPARSELt, compute capabilities) and their accessors             *)

InitPlain == InitProcess(ProbeEnvs)

NextPlain ==
    \/ \E beh \in Probes(ThrustOutputs), st \in OneSettings :
           check_thrust_version(beh, st) /\ UNCHANGED ncalls
    \/ \E beh \in Probes(NcclOutputs), st \in OneSettings :
           check_nccl_version(beh, st) /\ UNCHANGED ncalls
    \/ \E beh \in Probes(CusparseltOutputs), st \in OneSettings :
           check_cusparselt_version(beh, st) /\ UNCHANGED ncalls
    \/ \E beh \in Probes(CapabilityOutputs), st \in OneSettings :
           check_compute_capabilities(beh, st) /\ UNCHANGED ncalls
    \/ \E formatted \in BOOLEAN : get_thrust_version(formatted) /\ UNCHANGED ncalls
    \/ \E formatted \in BOOLEAN : get_nccl_version(formatted) /\ UNCHANGED ncalls
    \/ \E formatted \in BOOLEAN : get_cusparselt_version(formatted) /\ UNCHANGED ncalls
    \/ \E formatted \in BOOLEAN : get_compute_capabilities(formatted) /\ UNCHANGED ncalls

SpecPlain == InitPlain /\ [][NextPlain]_vars

---------------------------------------------------------------------------
(* Specification SpecVendored: check_cub_version, check_jitify_version and *)
(* their accessors                                                         *)

InitVendored == InitProcess(ProbeEnvs)

NextVendored ==
    \/ \E beh \in Probes(CubOutputs), git \in CubGits, st \in SettingsSet :
           check_cub_version(beh, git, st) /\ UNCHANGED ncalls
    \/ \E git \in JitifyGits, st \in SettingsSet :
           check_jitify_version(git, st) /\ UNCHANGED ncalls
    \/ \E formatted \in BOOLEAN : get_cub_version(formatted) /\ UNCHANGED ncalls
    \/ \E formatted \in BOOLEAN : get_jitify_version(formatted) /\ UNCHANGED ncalls

SpecVendored == InitVendored /\ [][NextVendored]_vars

---------------------------------------------------------------------------
(* The host, as the path lookups see it.  In the specifications that look *)
(* paths up, env has these fields too:                                     *)
(*   nvcc       what utils.search_on_path(('nvcc', 'nvcc.exe')) returns    *)
(*   CUDA_PATH  os.environ.get('CUDA_PATH', '')                            *)
(*   ROCM_HOME  os.environ.get('ROCM_HOME', '')                            *)
(*   nvtx       what _environment.get_nvtx_path() returns                  *)
(*   exists     the paths for which os.path.exists is true                 *)
(* An absolute path is the sequence of its components after "/".           *)

Root == <<"/">>
UsrLocalCuda == Root \o <<"usr", "local", "cuda">>
OptCuda == Root \o <<"opt", "cuda">>
MissingCuda == Root \o <<"missing", "cuda">>
OptRocm == Root \o <<"opt", "rocm">>
NvtxDir == Root \o <<"nvtx">>

exists(e, path) == path \in e.exists
dirname(path) == IF Len(path) > 1 THEN SubSeq(path, 1, Len(path) - 1) ELSE path
join(path, rest) == path \o rest

\* os.path.normpath of an absolute path: ".." steps back, not above the root
RECURSIVE Collapse(_, _)
Collapse(done, rest) ==
    IF rest = <<>> THEN done
    ELSE IF Head(rest) = ".."
    THEN Collapse(IF Len(done) > 1 THEN SubSeq(done, 1, Len(done) - 1) ELSE done,
                  Tail(rest))
    ELSE Collapse(Append(done, Head(rest)), Tail(rest))

normpath(path) == Collapse(<<>>, path)

\* a lookup gives [val, globals, trace, warned]
Looked(val, g, tr, w) == [val |-> val, globals |-> g, trace |-> tr, warned |-> w]

get_rocm_path(g, e) ==
    IF g._rocm_path # NotInitialized
    THEN Looked(g._rocm_path, g, <<>>, NoWarning)
    ELSE Looked(PyStr(e.ROCM_HOME), [g EXCEPT !._rocm_path = PyStr(e.ROCM_HOME)],
                <<Step("environ", PyStr(<<"ROCM_HOME">>))>>, NoWarning)

\* the if/elif chain of get_cuda_path
ToolkitRoot_nvcc_first(e, cuda_path, cuda_path_default) ==
    IF cuda_path_default # PyNone THEN cuda_path_default
    ELSE IF exists(e, cuda_path) THEN PyStr(cuda_path)
    ELSE IF exists(e, UsrLocalCuda) THEN PyStr(UsrLocalCuda)
    ELSE PyNone

ToolkitRoot(e, cuda_path, cuda_path_default) ==
    IF exists(e, cuda_path) THEN PyStr(cuda_path)
    ELSE IF cuda_path_default # PyNone THEN cuda_path_default
    ELSE IF exists(e, UsrLocalCuda) THEN PyStr(UsrLocalCuda)
    ELSE PyNone

get_cuda_path_uncached(g, e) ==
    LET nvcc_path == e.nvcc
        cuda_path_default ==
            IF nvcc_path # PyNone
            THEN PyStr(normpath(join(dirname(nvcc_path.v), <<"..">>)))
            ELSE PyNone
        cuda_path == e.CUDA_PATH
        w == IF Len(cuda_path) > 0 /\ PyStr(cuda_path) # cuda_path_default
             THEN <<<<"nvcc path != CUDA_PATH">>,
                    <<"nvcc path: ">> \o (IF cuda_path_default = PyNone
                                          THEN <<"None">> ELSE cuda_path_default.v),
                    <<"CUDA_PATH: ">> \o cuda_path>>
             ELSE NoWarning
        found == ToolkitRoot(e, cuda_path, cuda_path_default)
    IN  Looked(found, [g EXCEPT !._cuda_path = found],
               <<Step("search_on_path", nvcc_path)>>, w)

\* get_cuda_path without its cache test
get_cuda_path_no_cache(g, e) == get_cuda_path_uncached(g, e)

get_cuda_path(g, e) ==
    IF g._cuda_path # NotInitialized
    THEN Looked(g._cuda_path, g, <<>>, NoWarning)
    ELSE get_cuda_path_uncached(g, e)

\* get_compiler_base_options gives [ret, trace, fs, globals]
get_compiler_base_options_uncached(g, dirs, proc) ==
    LET op == "get_compiler_base_options"
        r == _tempdir(dirs, BaseOptionsSteps(op, proc))
    IN  IF r.ret.kind = "raise" THEN r @@ [globals |-> g]
        ELSE r @@ [globals |-> [g EXCEPT !._compiler_base_options = r.ret.val]]

get_compiler_base_options(g, dirs, proc) ==
    IF g._compiler_base_options = PyNone
    THEN get_compiler_base_options_uncached(g, dirs, proc)
    ELSE [ret |-> Return("get_compiler_base_options", g._compiler_base_options),
          trace |-> <<>>, fs |-> dirs, globals |-> g]

---------------------------------------------------------------------------
(* get_compiler_setting(ctx, use_hip); ctx is [include_dirs, library_dirs] *)

SourceRoot == Root \o <<"src">>
cupy_header == join(SourceRoot, <<"cupy", "_core", "include">>)
CcclCub == join(cupy_header, <<"cupy", "_cccl", "cub">>)
CcclThrust == join(cupy_header, <<"cupy", "_cccl", "thrust">>)
CcclLibcudacxx == join(cupy_header, <<"cupy", "_cccl", "libcudacxx">>)
JitifyPath == join(cupy_header, <<"cupy", "_jitify">>)
HipCub(rocm_path) == join(rocm_path, <<"include", "hipcub">>)

RocmIncludes(rocm_path) ==
    <<join(rocm_path, <<"include">>)>>
    \o [k \in 1..9 |->
           join(rocm_path,
                <<"include", <<"hip", "rocrand", "hiprand", "roctracer", "hipblas",
                               "hipsparse", "hipfft", "rocsolver", "rccl">>[k]>>)]

\* `if cuda_path:`, `if rocm_path:`: None and '' are false
Truthy(path) == path # PyNone /\ path.v # <<>>

\* the lists before the vendored directories are inserted
ToolkitDirs(e, ctx, cuda_path, rocm_path) ==
    LET i1 == IF Truthy(cuda_path)
              THEN Append(ctx.include_dirs, join(cuda_path.v, <<"include">>))
              ELSE ctx.include_dirs
        l1 == IF Truthy(cuda_path)
              THEN IF ~e.linux
                   THEN ctx.library_dirs \o <<join(cuda_path.v, <<"bin">>),
                                              join(cuda_path.v, <<"lib", "x64">>)>>
                   ELSE ctx.library_dirs \o <<join(cuda_path.v, <<"lib64">>),
                                              join(cuda_path.v, <<"lib">>)>>
              ELSE ctx.library_dirs
        i2 == IF Truthy(rocm_path) THEN i1 \o RocmIncludes(rocm_path.v) ELSE i1
        l2 == IF Truthy(rocm_path) THEN Append(l1, join(rocm_path.v, <<"lib">>)) ELSE l1
        nvtx == ~e.linux /\ e.nvtx # PyNone /\ exists(e, e.nvtx.v)
    IN  [include_dirs |-> IF nvtx THEN Append(i2, join(e.nvtx.v, <<"include">>)) ELSE i2,
         library_dirs |-> l2,
         define_macros |-> IF ~e.linux /\ ~nvtx
                           THEN <<Macro("CUPY_NO_NVTX", PyStr(<<"1">>))>> ELSE <<>>]

\* the include_dirs.insert(0, ...) calls at the end
Vendored(rocm_path, inc) ==
    IF Truthy(rocm_path)
    THEN <<HipCub(rocm_path.v), cupy_header>> \o inc
    ELSE <<CcclLibcudacxx, CcclThrust, CcclCub, cupy_header>> \o inc

\* gives [ret, settings, globals, trace, warned]
get_compiler_setting(g, e, ctx, use_hip) ==
    LET op == "get_compiler_setting"
        look == IF use_hip THEN get_rocm_path(g, e) ELSE get_cuda_path(g, e)
        cuda_path == IF use_hip THEN PyNone ELSE look.val
        rocm_path == IF use_hip THEN look.val ELSE PyNone
        d == ToolkitDirs(e, ctx, cuda_path, rocm_path)
        _cub_path == IF Truthy(rocm_path) THEN HipCub(rocm_path.v) ELSE CcclCub
        g1 == [look.globals EXCEPT !._jitify_path = PyStr(JitifyPath),
                                   !._cub_path = PyStr(_cub_path)]
    IN  IF Truthy(rocm_path) /\ ~exists(e, _cub_path)
        THEN [ret |-> Raise(op, "Exception", <<"Please install hipCUB and retry">>),
              settings |-> NoSettings, globals |-> g1,
              trace |-> look.trace, warned |-> look.warned]
        ELSE LET st == [include_dirs |-> Vendored(rocm_path, d.include_dirs),
                        library_dirs |-> d.library_dirs,
                        define_macros |-> d.define_macros,
                        language |-> "c++",
                        extra_compile_args |-> IF use_hip THEN <<"-std=c++14">>
                                               ELSE <<>>]
             IN  [ret |-> Return(op, PyDict(st)), settings |-> st,
                  globals |-> g1, trace |-> look.trace, warned |-> look.warned]

---------------------------------------------------------------------------
(* Calls of the lookups *)

Lookup(op, r) ==
    /\ ret' = Return(op, r.val)
    /\ trace' = r.trace
    /\ warned' = r.warned
    /\ globals' = r.globals
    /\ settings0' = NoSettings
    /\ settings' = NoSettings
    /\ UNCHANGED <<matchVars, env, fs, checked>>

GetCudaPath == Lookup("get_cuda_path", get_cuda_path(globals, env))

GetRocmPath == Lookup("get_rocm_path", get_rocm_path(globals, env))

GetCompilerBaseOptions(proc) ==
    LET r == get_compiler_base_options(globals, fs, proc)
    IN  /\ ret' = r.ret
        /\ trace' = r.trace
        /\ fs' = r.fs
        /\ globals' = r.globals
        /\ warned' = NoWarning
        /\ settings0' = NoSettings
        /\ settings' = NoSettings
        /\ UNCHANGED <<matchVars, env, checked>>

\* the caller keeps the dict that get_compiler_setting returned in settings
GetCompilerSetting(ctx, use_hip) ==
    LET r == get_compiler_setting(globals, env, ctx, use_hip)
    IN  /\ ret' = r.ret
        /\ trace' = r.trace
        /\ warned' = r.warned
        /\ globals' = r.globals
        /\ settings0' = NoSettings
        /\ settings' = r.settings
        /\ UNCHANGED <<matchVars, env, fs, checked>>

---------------------------------------------------------------------------
(* Hosts *)

NvccIn(root) == PyStr(join(root, <<"bin", "nvcc">>))

\* nvcc is where search_on_path found it, so the directory above it exists
Hosts ==
    { [nvcc |-> n, CUDA_PATH |-> c, ROCM_HOME |-> r, nvtx |-> PyNone,
       exists |-> x \cup {Root}] :
          n \in {PyNone, NvccIn(UsrLocalCuda), NvccIn(OptCuda), NvccIn(Root)},
          c \in {<<>>, OptCuda, MissingCuda},
          r \in {<<>>, OptRocm},
          x \in SUBSET {UsrLocalCuda, OptCuda} }

FoundNvccExists(h) == h.nvcc # PyNone => exists(h, normpath(join(dirname(h.nvcc.v), <<"..">>)))

PathEnvs == { PlainEnv @@ h : h \in { k \in Hosts : FoundNvccExists(k) } }

\* a host with CUDA under /usr/local/cuda, one with CUDA_PATH set, one with
\* neither
CacheEnvs ==
    { e \in PathEnvs :
          \/ e.nvcc = NvccIn(UsrLocalCuda) /\ e.CUDA_PATH = <<>> /\ e.ROCM_HOME = <<>>
                 /\ e.exists = {Root, UsrLocalCuda}
          \/ e.nvcc = PyNone /\ e.CUDA_PATH = OptCuda /\ e.ROCM_HOME = OptRocm
                 /\ e.exists = {Root, OptCuda}
          \/ e.nvcc = PyNone /\ e.CUDA_PATH = <<>> /\ e.ROCM_HOME = <<>>
                 /\ e.exists = {Root} }

\* hosts of get_compiler_setting: CUDA, ROCm with and without hipCUB,
\* Windows with and without NVTX
SettingHosts ==
    { [nvcc |-> NvccIn(UsrLocalCuda), CUDA_PATH |-> <<>>, ROCM_HOME |-> <<>>,
       nvtx |-> PyNone, exists |-> {Root, UsrLocalCuda}],
      [nvcc |-> PyNone, CUDA_PATH |-> <<>>, ROCM_HOME |-> <<>>,
       nvtx |-> PyNone, exists |-> {Root}],
      [nvcc |-> PyNone, CUDA_PATH |-> <<>>, ROCM_HOME |-> OptRocm,
       nvtx |-> PyNone, exists |-> {Root, OptRocm, HipCub(OptRocm)}],
      [nvcc |-> PyNone, CUDA_PATH |-> <<>>, ROCM_HOME |-> OptRocm,
       nvtx |-> PyNone, exists |-> {Root, OptRocm}],
      [nvcc |-> PyNone, CUDA_PATH |-> OptCuda, ROCM_HOME |-> <<>>,
       nvtx |-> PyStr(NvtxDir), exists |-> {Root, OptCuda, NvtxDir}] }

SettingEnvs == { e @@ h : e \in Envs, h \in SettingHosts }

Contexts ==
    { [include_dirs |-> <<>>, library_dirs |-> <<>>],
      [include_dirs |-> <<UserDir>>, library_dirs |-> <<CudaLib>>] }

---------------------------------------------------------------------------
(* Specification SpecPaths: calls of get_cuda_path and get_rocm_path *)

InitPaths == InitProcess(PathEnvs)

NextPaths ==
    \/ GetCudaPath /\ UNCHANGED ncalls
    \/ GetRocmPath /\ UNCHANGED ncalls

SpecPaths == InitPaths /\ [][NextPaths]_vars

---------------------------------------------------------------------------
(* Specification SpecCache: the lookups that keep their result, next to    *)
(* two checks (one that builds and runs, one that asks git) and their      *)
(* accessors                                                               *)

CacheThrustOutputs == { <<"2", "0", "0", "5", "0", "0">>, <<"2", "0", "0", "8", "0", "0">> }

CacheProcs ==
    { p \in Procs : p.write = Ok /\ p.spawn = Ok /\
          p.stderr \in {<<>>, <<"b", "\n">>,
                        ErrLine \o <<"\n">> \o UseLine \o <<"\n">>} }

InitCache == InitProcess(CacheEnvs)

NextCache ==
    \/ GetCudaPath /\ UNCHANGED ncalls
    \/ GetRocmPath /\ UNCHANGED ncalls
    \/ \E proc \in CacheProcs : GetCompilerBaseOptions(proc) /\ UNCHANGED ncalls
    \/ \E beh \in Probes(CacheThrustOutputs), st \in OneSettings :
           check_thrust_version(beh, st) /\ UNCHANGED ncalls
    \/ \E git \in JitifyGits, st \in OneSettings :
           check_jitify_version(git, st) /\ UNCHANGED ncalls
    \/ \E formatted \in BOOLEAN : get_thrust_version(formatted) /\ UNCHANGED ncalls
    \/ \E formatted \in BOOLEAN : get_jitify_version(formatted) /\ UNCHANGED ncalls

SpecCache == InitCache /\ [][NextCache]_vars

---------------------------------------------------------------------------
(* Specification SpecSettings: get_compiler_setting, and checks called     *)
(* with the settings it returned                                           *)

InitSettings == InitProcess(SettingEnvs)

HasSettings == settings # NoSettings

NextSettings ==
    \/ \E ctx \in Contexts, use_hip \in BOOLEAN :
           GetCompilerSetting(ctx, use_hip) /\ UNCHANGED ncalls
    \/ \E beh \in Probes(ThrustOutputs) :
           HasSettings /\ check_thrust_version(beh, settings) /\ UNCHANGED ncalls
    \/ \E beh \in Probes(AtFloor(minimum_hip_version)) :
           HasSettings /\ check_hip_version(beh, settings) /\ UNCHANGED ncalls

SpecSettings == InitSettings /\ [][NextSettings]_vars

---------------------------------------------------------------------------
(* The caller's lists.  conda_update_dirs starts with                      *)
(*   include_dirs = list(include_dirs); library_dirs = list(library_dirs)  *)
(* and works on these copies.  st is the caller's dict, or only the two    *)
(* lists it passes.                                                        *)


\* the caller's list after the call: arg is the list passed, worked the
\* list the function has inserted into and appended to
CallerList_aliased(arg, worked) == worked
CallerList(arg, worked) == arg

\* the two lists as conda_update_dirs leaves its locals: at the return, or
\* at the KeyError
CondaLocals(e, inc, lib) ==
    LET c == CondaCross(e, inc, lib)
        r == conda_update_dirs(e, inc, lib)
    IN  IF r.kind = "return" THEN r
        ELSE IF c.kind = "return" THEN c
        ELSE Dirs(inc, lib)

\* the caller's dict after conda_update_dirs was given its two lists
AfterCondaUpdateDirs(e, st) ==
    LET w == CondaLocals(e, st.include_dirs, st.library_dirs)
    IN  [st EXCEPT !.include_dirs = CallerList(@, w.include_dirs),
                   !.library_dirs = CallerList(@, w.library_dirs)]

\* the variables a call that is given the caller's lists leaves behind it
Given(r, st0, st) ==
    /\ ret' = r.ret
    /\ trace' = r.trace
    /\ fs' = r.fs
    /\ warned' = NoWarning
    /\ settings0' = st0
    /\ settings' = st
    /\ UNCHANGED <<matchVars, env, globals, checked>>

CondaUpdateDirs(st) ==
    LET op == "conda_update_dirs"
        r == conda_update_dirs(env, st.include_dirs, st.library_dirs)
        rv == IF r.kind = "raise" THEN Raise(op, r.cls, r.text)
              ELSE Return(op, PyTuple(<<PyList(r.include_dirs),
                                        PyList(r.library_dirs)>>))
    IN  Given([ret |-> rv, trace |-> <<>>, fs |-> fs], st,
              AfterCondaUpdateDirs(env, st))

\* build_and_run(compiler, source, include_dirs=settings['include_dirs'],
\*               library_dirs=settings['library_dirs'])
BuildAndRunGiven(beh, st) ==
    Given(build_and_run(fs, env, beh, st.include_dirs, st.library_dirs), st,
          AfterCondaUpdateDirs(env, st))

BuildShlibGiven(beh, st) ==
    Given(build_shlib(fs, env, beh, st.include_dirs, st.library_dirs), st,
          AfterCondaUpdateDirs(env, st))

---------------------------------------------------------------------------
(* Specification SpecCaller: the first MaxCalls calls of a process whose   *)
(* caller holds one settings dict and passes it to every call              *)

CallerSettings == CHOOSE st \in SettingsSet : st.define_macros # <<>>

\* a probe that does not link, and one that prints out
LinkFails == FailingAt("link", <<"undefined reference">>)
CallerProbes(outs) == {LinkFails} \cup { AllOk(out) : out \in outs }

\* no conda, a conda cross-compilation for CUDA 12, and CUDA 12 announced
\* without the variables of a conda build
CallerEnvs ==
    { e \in Envs :
          \/ e = PlainEnv
          \/ e.cross = 1 /\ startswith(e.override, <<"1", "2">>)
          \/ startswith(e.override, <<"1", "2">>) /\ e.defined = {} }

InitCaller ==
    /\ ret = NoCall
    /\ output_lines = <<>>
    /\ regexs = <<>>
    /\ env \in CallerEnvs
    /\ fs = {}
    /\ trace = <<>>
    /\ warned = NoWarning
    /\ settings0 = CallerSettings
    /\ settings = CallerSettings
    /\ globals = GlobalsAtImport
    /\ checked = {}
    /\ ncalls = 0

NextCaller ==
    \/ Call /\ \E beh \in CallerProbes(AtFloor(minimum_hip_version)) :
           check_hip_version(beh, settings)
    \/ Call /\ \E beh \in CallerProbes(AtFloor(minimum_cudnn_version)) :
           check_cudnn_version(beh, settings)
    \/ Call /\ \E beh \in CallerProbes(AtFloor(minimum_cutensor_version)) :
           check_cutensor_version(beh, settings)
    \/ Call /\ \E beh \in CallerProbes(ThrustOutputs) :
           check_thrust_version(beh, settings)
    \/ Call /\ \E beh \in CallerProbes(CusparseltOutputs) :
           check_cusparselt_version(beh, settings)
    \/ Call /\ \E beh \in CallerProbes({<<"2", "1", "8", "0", "3">>}) :
           check_nccl_version(beh, settings)
    \/ Call /\ \E beh \in CallerProbes({<<"8", "6", " ">>}) :
           check_compute_capabilities(beh, settings)
    \/ Call /\ \E beh \in CallerProbes({<<"2", "0", "0", "2", "0", "0">>}), git \in NoTag :
           check_cub_version(beh, git, settings)
    \/ Call /\ \E git \in {GitRan(128, <<>>), GitRan(0, <<"1a0ca0e", "\n">>)} :
           check_jitify_version(git, settings)
    \/ Call /\ \E beh \in CallerProbes({<<>>}) : BuildAndRunGiven(beh, settings)
    \/ Call /\ \E beh \in CallerProbes({<<>>}) : BuildShlibGiven(beh, settings)
    \/ Call /\ CondaUpdateDirs(settings)

SpecCaller == InitCaller /\ [][NextCaller]_vars

---------------------------------------------------------------------------
(* Specification SpecConda: calls of conda_update_dirs, in every           *)
(* environment                                                             *)

UsrLocalCudaInclude == <<"usr", "local", "cuda", "include">>
CudaStubs == <<"usr", "local", "cuda", "lib64", "stubs">>

\* lists of at most two directories; a caller may pass a directory twice,
\* or one that conda_update_dirs adds as well
CallerIncludeLists ==
    { <<>> } \cup { <<d>> : d \in {VendorDir, UserDir, UsrLocalCudaInclude} }
    \cup { <<d1, d2>> : d1, d2 \in {VendorDir, UserDir, UsrLocalCudaInclude} }
CallerLibraryLists ==
    { <<>> } \cup { <<d>> : d \in {CudaLib, CudaStubs} }
    \cup { <<d1, d2>> : d1, d2 \in {CudaLib, CudaStubs} }

InitConda == InitProcess(Envs)

NextConda ==
    \E inc \in CallerIncludeLists, lib \in CallerLibraryLists :
        CondaUpdateDirs([include_dirs |-> inc, library_dirs |-> lib])
            /\ UNCHANGED ncalls

SpecConda == InitConda /\ [][NextConda]_vars

---------------------------------------------------------------------------
(* Specification SpecRecheck: the seven checks that turn a failed probe    *)
(* into a warning, called again and again in one process, and their        *)
(* accessors.  Each probe either fails to link or prints the one value of  *)
(* its dependency.                                                         *)

Installed ==
    [check_hip_version |-> str(minimum_hip_version - 1),
     check_thrust_version |-> <<"2", "0", "0", "5", "0", "0">>,
     check_cudnn_version |-> str(minimum_cudnn_version),
     check_nccl_version |-> <<"2", "1", "8", "0", "3">>,
     check_cutensor_version |-> str(minimum_cutensor_version + 1),
     check_cusparselt_version |-> <<"6", "0", "2">>,
     check_compute_capabilities |-> <<"7", "5", " ", "8", "6", " ">>]

Rechecked(check) == CallerProbes({Installed[check]})

InitRecheck == InitProcess({PlainEnv})

NextRecheck ==
    \/ \E beh \in Rechecked("check_hip_version"), st \in OneSettings :
           check_hip_version(beh, st) /\ UNCHANGED ncalls
    \/ \E beh \in Rechecked("check_thrust_version"), st \in OneSettings :
           check_thrust_version(beh, st) /\ UNCHANGED ncalls
    \/ \E beh \in Rechecked("check_cudnn_version"), st \in OneSettings :
           check_cudnn_version(beh, st) /\ UNCHANGED ncalls
    \/ \E beh \in Rechecked("check_nccl_version"), st \in OneSettings :
           check_nccl_version(beh, st) /\ UNCHANGED ncalls
    \/ \E beh \in Rechecked("check_cutensor_version"), st \in OneSettings :
           check_cutensor_version(beh, st) /\ UNCHANGED ncalls
    \/ \E beh \in Rechecked("check_cusparselt_version"), st \in OneSettings :
           check_cusparselt_version(beh, st) /\ UNCHANGED ncalls
    \/ \E beh \in Rechecked("check_compute_capabilities"), st \in OneSettings :
           check_compute_capabilities(beh, st) /\ UNCHANGED ncalls
    \/ \E formatted \in BOOLEAN : get_hip_version(formatted) /\ UNCHANGED ncalls
    \/ \E formatted \in BOOLEAN : get_thrust_version(formatted) /\ UNCHANGED ncalls
    \/ \E formatted \in BOOLEAN : get_cudnn_version(formatted) /\ UNCHANGED ncalls
    \/ \E formatted \in BOOLEAN : get_nccl_version(formatted) /\ UNCHANGED ncalls
    \/ \E formatted \in BOOLEAN : get_cutensor_version(formatted) /\ UNCHANGED ncalls
    \/ \E formatted \in BOOLEAN : get_cusparselt_version(formatted) /\ UNCHANGED ncalls
    \/ \E formatted \in BOOLEAN : get_compute_capabilities(formatted) /\ UNCHANGED ncalls

SpecRecheck == InitRecheck /\ [][NextRecheck]_vars

---------------------------------------------------------------------------
(* Specification SpecMatch: calls of _match_output_lines *)

\* the call _match_output_lines(output_lines, regexs)
MatchOutputLines ==
    /\ ret = NoCall
    /\ ret' = Return("_match_output_lines",
                     _match_output_lines(output_lines, regexs))
    /\ UNCHANGED <<matchVars, env, buildVars, callVars, globals, checked>>

\* the arguments of the call; every caller passes at least one expression
InitMatch ==
    /\ ret = NoCall
    /\ env = PlainEnv
    /\ fs = {}
    /\ trace = <<>>
    /\ warned = NoWarning
    /\ settings0 = NoSettings
    /\ settings = NoSettings
    /\ globals = GlobalsAtImport
    /\ checked = {}
    /\ ncalls = 0
    /\ output_lines \in SeqsUpTo(LineSet, MaxLines)
    /\ regexs \in SeqsFromTo(RegexSet, 1, MaxRegexs)

NextMatch == MatchOutputLines /\ UNCHANGED ncalls

SpecMatch == InitMatch /\ [][NextMatch]_vars

---------------------------------------------------------------------------
(* C1: _match_output_lines(L, R) returns a match list exactly when some    *)
(* start offset s with 0 <= s <= len(L) - len(R) has R[i] matching L[s+i]  *)
(* for every i, the matches returned are those of the smallest such s, and *)
(* None is returned only when there is no such window.                     *)

WindowAt(lines, res, s) ==
    \A i \in 1..Len(res) : re_match(res[i], lines[s + i]) # PyNone

Windows(lines, res) ==
    { s \in 0..(Len(lines) - Len(res)) : WindowAt(lines, res, s) }

Min(S) == CHOOSE x \in S : \A y \in S : x <= y

FirstWindowMatches(lines, res) ==
    LET s == Min(Windows(lines, res))
    IN  PyList([i \in 1..Len(res) |-> re_match(res[i], lines[s + i])])

C1_FirstWindow ==
    ret.op = "_match_output_lines" =>
        IF Windows(output_lines, regexs) = {}
        THEN ret.val = PyNone
        ELSE ret.val = FirstWindowMatches(output_lines, regexs)

---------------------------------------------------------------------------
(* What the trace of the last call shows *)

\* the probe ran to its end, and what it printed
ProbePrinted ==
    \E k \in 1..Len(trace) : trace[k].step = "execute" /\ trace[k].arg # PyNone
PrintedText ==
    trace[CHOOSE k \in 1..Len(trace) :
              trace[k].step = "execute" /\ trace[k].arg # PyNone].arg.v

\* the link step or the execution step failed, and with what text
LinkOrRunStep(k) ==
    /\ trace[k].step = "error"
    /\ trace[k - 1].step \in {"link_executable", "link_shared_lib", "execute"}
LinkOrRunFailed == \E k \in 2..Len(trace) : LinkOrRunStep(k)
FailureText == trace[CHOOSE k \in 2..Len(trace) : LinkOrRunStep(k)].arg.v

\* git was run, and what it did
GitWasRun == \E k \in 1..Len(trace) : trace[k].step = "git"
GitResult == trace[CHOOSE k \in 1..Len(trace) : trace[k].step = "git"].arg

---------------------------------------------------------------------------
(* C3: for every version/capability accessor, a call made before the      *)
(* corresponding check_* function has ever been called raises the 'must    *)
(* be called first' error and never returns a value.                       *)

AccessorCheck ==
    [get_hip_version |-> "check_hip_version",
     get_thrust_version |-> "check_thrust_version",
     get_cudnn_version |-> "check_cudnn_version",
     get_nccl_version |-> "check_nccl_version",
     get_cub_version |-> "check_cub_version",
     get_jitify_version |-> "check_jitify_version",
     get_cutensor_version |-> "check_cutensor_version",
     get_cusparselt_version |-> "check_cusparselt_version",
     get_compute_capabilities |-> "check_compute_capabilities"]

C3_AccessorBeforeCheckRaises ==
    (ret.op \in DOMAIN AccessorCheck /\ AccessorCheck[ret.op] \notin checked) =>
        ret = MustBeCalledFirst(ret.op, AccessorCheck[ret.op])

---------------------------------------------------------------------------
(* C4 (as stated): once a check_* function or one of get_cuda_path,        *)
(* get_rocm_path, get_compiler_base_options has cached a result, calling   *)
(* the same function again does not run the probe (or the lookup) again    *)
(* and does not change the cached value.                                   *)

CacheOf ==
    [check_thrust_version |-> "_thrust_version",
     check_jitify_version |-> "_jitify_version",
     get_cuda_path |-> "_cuda_path",
     get_rocm_path |-> "_rocm_path",
     get_compiler_base_options |-> "_compiler_base_options"]

CachingLookups == {"get_cuda_path", "get_rocm_path", "get_compiler_base_options"}
RepeatedChecks == {"check_thrust_version", "check_jitify_version"}

\* the value the module has at import, per cache
Unfilled(op) == GlobalsAtImport[CacheOf[op]]

\* a step that calls op when op's cache is filled
CalledAgain(op) == ret'.op = op /\ globals[CacheOf[op]] # Unfilled(op)

C4_ProbeAtMostOnce ==
    [][\A op \in CachingLookups \cup RepeatedChecks :
           CalledAgain(op) => (trace' = <<>> /\ globals' = globals)]_vars

(* C4 (amended): get_cuda_path, get_rocm_path and get_compiler_base_options *)
(* called with their cache filled return the cached value without looking   *)
(* anything up or running anything, and leave every cache as it was.  A     *)
(* check_* function runs its probe (build-and-run or git) on every call,    *)
(* also when its cache is filled, and a probe that prints a new value, or a *)
(* git query with a new outcome, replaces the cached value.                 *)

C4_OnlyLookupsCache ==
    [][/\ \A op \in CachingLookups :
              CalledAgain(op) =>
                  /\ trace' = <<>>
                  /\ globals' = globals
                  /\ ret' = Return(op, globals[CacheOf[op]])
       /\ \A op \in RepeatedChecks : CalledAgain(op) => trace' # <<>>
       /\ (CalledAgain("check_thrust_version") /\ ProbePrinted') =>
              globals'._thrust_version = PyInt(int(PrintedText').v)
       /\ (CalledAgain("check_jitify_version") /\ GitWasRun') =>
              (globals'._jitify_version = PyInt(0 - 1))
                  <=> ~(GitResult'.spawn = Ok /\ GitResult'.returncode = 0)]_vars

\* get_cuda_path, called again after a check_thrust_version, has returned
\* the cached toolkit root and looked nothing up
C4_Witness ==
    /\ ret = Return("get_cuda_path", PyStr(UsrLocalCuda))
    /\ trace = <<>>
    /\ globals._cuda_path = PyStr(UsrLocalCuda)
    /\ globals._thrust_version = PyInt(200800)

---------------------------------------------------------------------------
(* C5: for HIP (floor 305), cuDNN (floor 7600) and cuTENSOR (floor 2000), *)
(* a check whose probe prints a value returns True when the value is the   *)
(* floor or above it and returns False, without raising, when it is below. *)

Floors ==
    [check_hip_version |-> minimum_hip_version,
     check_cudnn_version |-> minimum_cudnn_version,
     check_cutensor_version |-> minimum_cutensor_version]

C5_FloorInclusive ==
    (ret.op \in DOMAIN Floors /\ ProbePrinted) =>
        ret = Return(ret.op, PyBool(int(PrintedText).v >= Floors[ret.op]))

\* cuDNN at exactly its floor is accepted
C5_Witness ==
    /\ ret = Return("check_cudnn_version", True)
    /\ ProbePrinted
    /\ PrintedText = str(minimum_cudnn_version)

---------------------------------------------------------------------------
(* C6: after check_compute_capabilities ran a probe that printed          *)
(* whitespace-separated integers, the check has returned True and          *)
(* get_compute_capabilities returns the set of the distinct integers       *)
(* printed; a probe that prints nothing gives the empty set.               *)

\* [i, j] is a maximal run of digits of text
DigitRun(text, i, j) ==
    /\ \A k \in i..j : IsDigit(text[k])
    /\ i = 1 \/ ~IsDigit(text[i - 1])
    /\ j = Len(text) \/ ~IsDigit(text[j + 1])

PrintedInts(text) ==
    { DigitsValue(SubSeq(text, i, j)) :
          <<i, j>> \in { p \in (1..Len(text)) \X (1..Len(text)) :
                             p[1] <= p[2] /\ DigitRun(text, p[1], p[2]) } }

CapabilitiesChecked == ret.op = "check_compute_capabilities" /\ ProbePrinted

---------------------------------------------------------------------------
(* C7: in the include-directory list handed to the compiler by a probe     *)
(* (built by get_compiler_setting, then passed through conda_update_dirs), *)
(* every vendored header directory (CuPy header root, CUB, Thrust,         *)
(* libcudacxx) precedes every toolkit or system include directory, for     *)
(* every context include list and every conda environment.                 *)

Compiled == \E k \in 1..Len(trace) : trace[k].step = "compile"
HandedToCompiler ==
    trace[CHOOSE k \in 1..Len(trace) : trace[k].step = "compile"].arg.v

\* the directories get_compiler_setting puts in front: the CuPy header
\* root, and what it uses as CUB, Thrust and libcudacxx
VendoredDirs == {cupy_header, CcclCub, CcclThrust, CcclLibcudacxx, HipCub(OptRocm)}

C7_VendoredFirst ==
    (ret.op \in {"check_thrust_version", "check_hip_version"} /\ Compiled) =>
        \A i, j \in 1..Len(HandedToCompiler) :
            (HandedToCompiler[i] \in VendoredDirs
                 /\ HandedToCompiler[j] \notin VendoredDirs) => i < j

---------------------------------------------------------------------------
(* C8: the first call of get_cuda_path returns the CUDA_PATH override when *)
(* it is set and exists; otherwise the parent of the directory holding the *)
(* located nvcc when one is found; otherwise /usr/local/cuda when it       *)
(* exists; otherwise None.  It does not raise.                             *)

\* the directory above the directory of file
ParentOfDirectory(file) ==
    IF Len(file) >= 3 THEN SubSeq(file, 1, Len(file) - 2) ELSE Root

ByPrecedence(e) ==
    IF e.CUDA_PATH # <<>> /\ e.CUDA_PATH \in e.exists THEN PyStr(e.CUDA_PATH)
    ELSE IF e.nvcc # PyNone THEN PyStr(ParentOfDirectory(e.nvcc.v))
    ELSE IF UsrLocalCuda \in e.exists THEN PyStr(UsrLocalCuda)
    ELSE PyNone

C8_Precedence ==
    [][(ret'.op = "get_cuda_path" /\ globals._cuda_path = NotInitialized) =>
           ret' = Return("get_cuda_path", ByPrecedence(env))]_vars

\* CUDA_PATH is set to a directory that does not exist, nvcc is found
\* under /usr/local/cuda: the first call has warned and returned the latter
C8_Witness ==
    /\ ret = Return("get_cuda_path", PyStr(UsrLocalCuda))
    /\ trace # <<>>
    /\ warned # NoWarning
    /\ env.CUDA_PATH = MissingCuda
    /\ env.nvcc = NvccIn(UsrLocalCuda)

---------------------------------------------------------------------------
(* C9 (as stated): whenever the link step or the execution step of a probe *)
(* fails, the failure reaches the caller as an exception that carries the  *)
(* original error text, for build_and_run, build_shlib and every check_*   *)
(* function built on them; it is never turned into a normal return value.  *)

BuildOps == {"build_and_run", "build_shlib"}
WarningChecks ==
    {"check_hip_version", "check_thrust_version", "check_cudnn_version",
     "check_nccl_version", "check_cutensor_version",
     "check_cusparselt_version", "check_compute_capabilities"}
ProbeOps == BuildOps \cup WarningChecks \cup {"check_cub_version"}

C9_FailureAlwaysRaises ==
    (ret.op \in ProbeOps /\ LinkOrRunFailed) =>
        /\ ret.kind = "raise"
        /\ Contains(ret.val.v, FailureText)

(* C9 (amended): when the link step or the execution step fails,          *)
(* build_and_run and build_shlib raise an Exception whose text carries the *)
(* original error text; the check_* functions catch it: check_cub_version  *)
(* returns True (with its fallback version), every other check prints a    *)
(* warning that carries the text and returns False.                        *)

C9_FailureSurfaced ==
    LinkOrRunFailed =>
        /\ ret.op \in BuildOps =>
               /\ ret.kind = "raise"
               /\ ret.val.t = "Exception"
               /\ Contains(ret.val.v, FailureText)
        /\ ret.op \in WarningChecks =>
               /\ ret = Return(ret.op, False)
               /\ \E k \in 1..Len(warned) : Contains(warned[k], FailureText)
        /\ ret.op = "check_cub_version" => ret = Return(ret.op, True)

\* a check whose probe did not link has returned False
C9_Witness ==
    /\ ret = Return("check_thrust_version", False)
    /\ LinkOrRunFailed
    /\ FailureText = <<"undefined reference">>

---------------------------------------------------------------------------
(* C10: check_cub_version always returns True and leaves an integer in    *)
(* the cache: what the probe printed when it built and ran, otherwise the  *)
(* version of the git tag, otherwise -1; -1 is cached exactly when both    *)
(* the probe and the tag fail.  get_cub_version(formatted=True) returns    *)
(* '<unknown>' exactly for -1.                                             *)

Dotted(x, y, z) == str(x) \o <<".">> \o str(y) \o <<".">> \o str(z)

\* tag is "X.Y.Z", or "X.Y.Z-N" followed by nothing or by "-..." (N local
\* commits)
IsTagOf(tag, x, y, z, n) ==
    \/ n = 0 /\ tag = Dotted(x, y, z)
    \/ LET head == Dotted(x, y, z) \o <<"-">> \o str(n)
       IN  /\ IsPrefix(head, tag)
           /\ Len(tag) = Len(head) \/ tag[Len(head) + 1] = "-"

\* the versions a line printed by `git describe --tags` stands for
TagVersions(stdout) ==
    LET t0 == SubSeq(stdout, 1, Len(stdout) - 1)
        tag == IF t0 # <<>> /\ t0[1] = "v" THEN Tail(t0) ELSE t0
    IN  { c[1] * 100000 + c[2] * 100 + c[3] + c[4] :
              c \in { d \in (0..9) \X (0..9) \X (0..9) \X (0..9) :
                          IsTagOf(tag, d[1], d[2], d[3], d[4]) } }

TagGiven ==
    /\ GitWasRun
    /\ GitResult.spawn = Ok
    /\ GitResult.returncode = 0
    /\ TagVersions(GitResult.stdout) # {}

C10_CubVersion ==
    /\ ret.op = "check_cub_version" =>
           /\ ret = Return("check_cub_version", True)
           /\ ProbePrinted => globals._cub_version = PyInt(int(PrintedText).v)
           /\ (~ProbePrinted /\ TagGiven) =>
                  globals._cub_version.t = "int"
                  /\ globals._cub_version.v \in TagVersions(GitResult.stdout)
           /\ (globals._cub_version = PyInt(0 - 1)) <=> (~ProbePrinted /\ ~TagGiven)
    /\ (ret.op = "get_cub_version" /\ ret.kind = "return" /\ ret.val.t = "str") =>
           /\ (ret.val = Unknown) <=> (globals._cub_version = PyInt(0 - 1))
           /\ ret.val # Unknown => ret.val.v = str(globals._cub_version.v)

\* neither the probe nor the tag gave a version
C10_Witness ==
    /\ ret = Return("check_cub_version", True)
    /\ ~ProbePrinted
    /\ GitWasRun
    /\ ~TagGiven
    /\ globals._cub_version = PyInt(0 - 1)

---------------------------------------------------------------------------
(* C11 (as stated): after any sequence of check_*, build_and_run,          *)
(* build_shlib and conda_update_dirs calls, the caller's settings          *)
(* (include_dirs, library_dirs, define_macros) are equal to what they were *)
(* before the calls.                                                       *)

C11_SettingsUnchanged ==
    /\ settings.include_dirs = CallerSettings.include_dirs
    /\ settings.library_dirs = CallerSettings.library_dirs
    /\ settings.define_macros = CallerSettings.define_macros

(* C11 (amended): no call changes the caller's include_dirs or             *)
(* library_dirs, and no call removes or changes a macro definition; the    *)
(* calls other than check_cub_version and check_jitify_version leave       *)
(* define_macros as it was; each call of check_cub_version appends the one *)
(* entry (CUPY_CUB_VERSION_CODE, cached version) to it, each call of       *)
(* check_jitify_version the one entry (CUPY_JITIFY_VERSION_CODE, cached    *)
(* version).                                                               *)

MacroChecks == {"check_cub_version", "check_jitify_version"}

C11_OnlyMacrosAppended ==
    /\ [](/\ settings.include_dirs = CallerSettings.include_dirs
          /\ settings.library_dirs = CallerSettings.library_dirs
          /\ IsPrefix(CallerSettings.define_macros, settings.define_macros))
    /\ [][/\ ret'.op \notin MacroChecks => settings' = settings
          /\ ret'.op = "check_cub_version" =>
                 settings' = [settings EXCEPT !.define_macros =
                                 Append(@, Macro("CUPY_CUB_VERSION_CODE",
                                                 globals'._cub_version))]
          /\ ret'.op = "check_jitify_version" =>
                 settings' = [settings EXCEPT !.define_macros =
                                 Append(@, Macro("CUPY_JITIFY_VERSION_CODE",
                                                 globals'._jitify_version))]]_vars

\* in a conda cross-compilation check_cub_version has handed the compiler
\* a longer include list than the caller's, and left the caller's lists as
\* they were with one macro more
C11_Witness ==
    /\ ret = Return("check_cub_version", True)
    /\ env.cross = 1
    /\ Compiled
    /\ HandedToCompiler # settings.include_dirs
    /\ settings.include_dirs = CallerSettings.include_dirs
    /\ settings.define_macros =
           Append(CallerSettings.define_macros,
                  Macro("CUPY_CUB_VERSION_CODE", PyInt(200200)))

---------------------------------------------------------------------------
(* C12: the lists conda_update_dirs returns contain all of the caller's    *)
(* include directories and all of the caller's library directories,        *)
(* contiguously and in their order; what the environment adds stands       *)
(* before the first or after the last caller entry; no caller entry is     *)
(* dropped, replaced or reordered.                                         *)

\* the directories conda_update_dirs adds: below a conda variable, or the
\* two fixed CUDA 11 directories
FromEnvironment(d) == d[1] = "$" \/ d \in {UsrLocalCudaInclude, CudaStubs}

\* given stands in got from position k + 1 on, and every other entry of
\* got is from the environment
Around(given, got, k) ==
    /\ SubSeq(got, k + 1, k + Len(given)) = given
    /\ \A i \in 1..Len(got) :
           (i <= k \/ i > k + Len(given)) => FromEnvironment(got[i])

Kept(given, got) ==
    /\ Len(got) >= Len(given)
    /\ \E k \in 0..(Len(got) - Len(given)) : Around(given, got, k)

CondaReturned == ret.op = "conda_update_dirs" /\ ret.kind = "return"

C12_CallerEntriesKept ==
    CondaReturned =>
        /\ Kept(settings0.include_dirs, ret.val.v[1].v)
        /\ Kept(settings0.library_dirs, ret.val.v[2].v)

\* a cross-compilation for CUDA 12: one directory in front of the caller's
\* two include directories, three after them
C12_Witness ==
    /\ CondaReturned
    /\ env.cross = 1
    /\ startswith(env.override, <<"1", "2">>)
    /\ settings0.include_dirs = <<VendorDir, UserDir>>
    /\ Len(ret.val.v[1].v) = 6
    /\ SubSeq(ret.val.v[1].v, 2, 3) = <<VendorDir, UserDir>>

---------------------------------------------------------------------------
(* C13: within one build_and_run call the steps are, in this order: create *)
(* workspace, write source, compile, link, execute, remove workspace.      *)
(* Link is not attempted when compile fails, the binary is not executed    *)
(* when compile or link fails, and a value is returned only after a        *)
(* successful execution.  build_shlib follows the same order and never     *)
(* executes anything.                                                      *)

StepsOf(op) ==
    IF op = "build_and_run"
    THEN <<"mkdtemp", "write", "compile", "link_executable", "execute">>
    ELSE <<"mkdtemp", "write", "compile", "link_shared_lib">>

IsWork(s) == s \notin {"error", "rmtree"}

\* the step named name was taken, and it failed
Took(name) == \E k \in 1..Len(trace) : trace[k].step = name
FailedAt(name) ==
    \E k \in 1..(Len(trace) - 1) :
        trace[k].step = name /\ trace[k + 1].step = "error"

C13_StepOrder ==
    ret.op \in BuildOps =>
        /\ IsPrefix(SelectSeq(StepNames(trace), IsWork), StepsOf(ret.op))
        /\ Took("mkdtemp") =>
               /\ trace[Len(trace)].step = "rmtree"
               /\ Cardinality({ k \in 1..Len(trace) : trace[k].step = "rmtree" }) = 1
        /\ FailedAt("compile") =>
               ~Took("link_executable") /\ ~Took("link_shared_lib") /\ ~Took("execute")
        /\ (FailedAt("link_executable") \/ FailedAt("link_shared_lib")) => ~Took("execute")
        /\ ret.op = "build_shlib" => ~Took("execute")
        /\ (ret.op = "build_and_run" /\ ret.kind = "return") =>
               /\ Took("execute")
               /\ ~FailedAt("write") /\ ~FailedAt("compile")
               /\ ~FailedAt("link_executable") /\ ~FailedAt("execute")
               /\ ProbePrinted
               /\ ret.val = PyStr(PrintedText)

\* a build_and_run whose source compiled and did not link
C13_Witness ==
    /\ ret.op = "build_and_run"
    /\ FailedAt("link_executable")
    /\ Took("compile")
    /\ ~Took("execute")
    /\ trace[Len(trace)].step = "rmtree"

---------------------------------------------------------------------------
(* C14 (as stated): _get_compiler_base_options has exactly three outcomes. *)
(* When the dummy compile exits 0 it returns the empty list; when it exits *)
(* non-zero and the stderr contains the "No supported gcc/g++ host         *)
(* compiler found, but ... is available." line immediately followed by the *)
(* "Use 'nvcc <opts>' to use that instead." line it returns <opts> split   *)
(* on single spaces; in every other non-zero case it raises RuntimeError   *)
(* carrying the stderr text.                                               *)

\* the dummy compile ran to its end, and what it gave
DummyCompiled ==
    \E k \in 1..Len(trace) :
        trace[k].step = "compile" /\ trace[k].arg.t = "tuple"
DummyCompile ==
    trace[CHOOSE k \in 1..Len(trace) : trace[k].step = "compile"].arg.v
ExitStatus == DummyCompile[1].v
StderrText == DummyCompile[2].v

\* the places where the two diagnostic lines stand one after the other
SuggestionAt(text) ==
    LET ls == SplitOn(text, "\n")
    IN  { i \in 1..(Len(ls) - 1) :
            /\ re_match(NoHostCompilerRe, ls[i]) # PyNone
            /\ re_match(UseInsteadRe, ls[i + 1]) # PyNone }

\* <opts> of the first such place
SuggestedOpts(text) ==
    LET ls == SplitOn(text, "\n")
        i == CHOOSE k \in SuggestionAt(text) :
                 \A h \in SuggestionAt(text) : k <= h
    IN  re_match(UseInsteadRe, ls[i + 1]).group1.v

C14_ThreeOutcomes ==
    (ret.op = "_get_compiler_base_options" /\ DummyCompiled) =>
        IF ExitStatus = 0
        THEN ret = Return(ret.op, PyList(<<>>))
        ELSE IF SuggestionAt(StderrText) # {}
        THEN ret = Return(ret.op,
                          PyList(SplitOn(SuggestedOpts(StderrText), " ")))
        ELSE ret = Raise(ret.op, "RuntimeError",
                         <<UnknownErrorMsg>> \o StderrText)

---------------------------------------------------------------------------
(* C15: for the dependencies with a floor (HIP, cuDNN, cuTENSOR) the       *)
(* detected value is cached before the floor comparison: after a check     *)
(* that returned False because the value was below the floor, the accessor *)
(* returns that below-floor value and does not raise "must be called       *)
(* first"; the accessor raises after a check only when the probe itself    *)
(* failed and no earlier probe succeeded.                                  *)

AccessorOf ==
    [check_hip_version |-> "get_hip_version",
     check_cudnn_version |-> "get_cudnn_version",
     check_cutensor_version |-> "get_cutensor_version"]

FloorCache ==
    [check_hip_version |-> "_hip_version",
     check_cudnn_version |-> "_cudnn_version",
     check_cutensor_version |-> "_cutensor_version"]

\* the accessor gave the value n, as it is or formatted
Gave(r, n) ==
    /\ r.kind = "return"
    /\ r.val \in {PyInt(n), PyStr(str(n))}

\* the check that has just returned leaves the printed value in its cache,
\* whatever the comparison said
CachedWhateverTheFloor ==
    (ret.op \in DOMAIN Floors /\ ProbePrinted) =>
        globals[FloorCache[ret.op]] = int(PrintedText)

\* the accessor called right after its check
AccessorAfterCheck ==
    (ret.op \in DOMAIN Floors /\ ret'.op = AccessorOf[ret.op]) =>
        IF ProbePrinted
        THEN Gave(ret', int(PrintedText).v)
        ELSE ret'.kind = "raise" =>
                 /\ ret' = MustBeCalledFirst(ret'.op, ret.op)
                 /\ globals[FloorCache[ret.op]] = PyNone

\* once a probe of the dependency has printed its value the accessor
\* never raises again
NeverRaisesAfterSuccess(check) ==
    [](  (ret.op = check /\ ProbePrinted)
      => [](ret.op = AccessorOf[check] => ret.kind = "return"))

C15_CachedBeforeFloor ==
    /\ []CachedWhateverTheFloor
    /\ [][AccessorAfterCheck]_vars
    /\ \A check \in DOMAIN Floors : NeverRaisesAfterSuccess(check)

\* cuDNN one below its floor: the check was run and the accessor gives
\* the value
C15_Witness ==
    /\ ret = Return("get_cudnn_version", PyInt(minimum_cudnn_version - 1))
    /\ "check_cudnn_version" \in checked
    /\ globals._cudnn_version = PyInt(minimum_cudnn_version - 1)

---------------------------------------------------------------------------
(* C16: a check_* call (hip, thrust, cudnn, nccl, cutensor, cusparselt,    *)
(* compute capabilities) whose probe raises returns False and leaves that  *)
(* dependency's cached value, and every other dependency's cached value,   *)
(* exactly as it was before the call; hence after a successful check       *)
(* followed by a failed re-check the accessor still returns the value of   *)
(* the last successful probe.                                              *)

WarningAccessor ==
    [check_hip_version |-> "get_hip_version",
     check_thrust_version |-> "get_thrust_version",
     check_cudnn_version |-> "get_cudnn_version",
     check_nccl_version |-> "get_nccl_version",
     check_cutensor_version |-> "get_cutensor_version",
     check_cusparselt_version |-> "get_cusparselt_version",
     check_compute_capabilities |-> "get_compute_capabilities"]

\* the step is a check whose probe raised
FailedProbeStep == ret'.op \in WarningChecks /\ ~ProbePrinted'

FailedProbeKeepsCaches ==
    FailedProbeStep => (ret' = Return(ret'.op, False) /\ globals' = globals)

\* the accessor gives what the probe of its check printed, as it is or
\* formatted
GaveInstalled(r, check) ==
    /\ r.kind = "return"
    /\ IF check = "check_compute_capabilities"
       THEN r.val = PySet({75, 86})
       ELSE r.val \in {int(Installed[check]),
                       PyStr(str(int(Installed[check]).v))}

\* from a successful probe on, whatever checks follow, the accessor gives
\* the value that probe printed
StillTheLastValue(check) ==
    [](  (ret.op = check /\ ProbePrinted)
      => [](ret.op = WarningAccessor[check] => GaveInstalled(ret, check)))

C16_FailedProbeKeepsCaches ==
    /\ [][FailedProbeKeepsCaches]_vars
    /\ \A check \in WarningChecks : StillTheLastValue(check)

\* a Thrust check that failed after an earlier one had succeeded
C16_Witness ==
    /\ ret = Return("check_thrust_version", False)
    /\ ~ProbePrinted
    /\ LinkOrRunFailed
    /\ globals._thrust_version = int(Installed["check_thrust_version"])

=============================================================================
